---------------------------- MODULE Spec2Model ----------------------------
(***************************************************************************)
(* NorthStar backend: the space-weather risk assessment                    *)
(* (app/services/space_weather_service.py) and the satellite pass          *)
(* evaluation (app/services/satellite_service.py).                         *)
(*                                                                         *)
(* Units.  Kp values and flare scales are floats in the code; here they    *)
(* are integers counting TENTHS (kp 3.0 is 30, scale 5.2 is 52).  Visual   *)
(* magnitudes are tenths too.  Elevations are whole degrees, durations     *)
(* whole seconds.  Instants are whole seconds relative to the moment the   *)
(* model starts (a timestamp before that moment is negative).              *)
(***************************************************************************)
EXTENDS Integers, Sequences, FiniteSets, TLC

VARIABLES
    now,          \* the wall clock read by datetime.utcnow()
    call,         \* SpecPure: the last call of a classification function
    prevCall,     \* SpecPure: the status call before the last one
    DEMO_MODE,    \* settings.DEMO_MODE
    upstream,     \* what the three upstream feeds currently serve
    pc,           \* get_current_status: "idle", "gather", "done"
    tasks,        \* the three coroutines handed to asyncio.gather
    log,          \* the logger.error events of the current invocation
    fetches,      \* how many times each feed was fetched in this invocation
    finished,     \* the feeds whose coroutine has completed, in completion order
    n2yo,         \* what the N2YO endpoint serves for each tracked satellite
    overhead,     \* get_overhead_satellites / get_next_iss_pass: their progress
    scheduler,    \* scheduler.py: the module global, None or a scheduler
    instances,    \* every AsyncIOScheduler created so far
    lastChange,   \* the last start/stop call that changed the scheduler state
    task,         \* the current run of the periodic update_space_weather
    returned      \* what get_current_status returned ("none" while running)

vars == <<now, call, prevCall, DEMO_MODE, upstream, pc, tasks, log, fetches, finished,
          n2yo, overhead, scheduler, instances, lastChange, task, returned>>

\* The state of the satellite service and of the scheduler module
satellites == <<n2yo, overhead>>
scheduling == <<scheduler, instances, lastChange, task>>

-----------------------------------------------------------------------------
(* Bounds of the model *)

\* Kp values explored reach KpBelow tenths under 0 and KpAbove tenths over 9.0.
KpBelow == 2
KpAbove == 5
\* Longest flare list and longest CME list handed to a classification function.
MaxFlares == 2
MaxCmes == 2
\* Longest flare list and longest CME list of a whole status assessment, and
\* longest list an upstream feed serves.
MaxFeedItems == 1
\* The clock advances at most MaxTicks times.
MaxTicks == 2
\* Longest list of passes N2YO serves for one satellite.
MaxPasses == 1
\* start_scheduler creates at most MaxStarts schedulers, and the periodic task
\* runs at most MaxRuns times.
MaxStarts == 2
MaxRuns == 2

(* Program constants *)

\* kp = 3.0, the default of _get_current_kp and of get_current_status
KP_DEFAULT == 30
\* "(datetime.utcnow() - f.timestamp).seconds < 3600"
RECENT_WINDOW == 3600
\* timedelta.seconds is the remainder of the difference modulo one day
SECONDS_PER_DAY == 86400
\* kp = 9.0, the top of the Kp scale (KpIndex.value, le=9)
KP_MAX == 90

-----------------------------------------------------------------------------
(* Input domains *)

KpValues == (0 - KpBelow)..(KP_MAX + KpAbove)

FlareClasses == {"C", "M", "X"}

\* Flare scales on both sides of the "scale > 5" test of _assess_satellite_risk
ScaleValues == {49, 50, 51}

\* Ages (evaluation instant minus flare timestamp) on both sides of the one-hour
\* window, of one day, and of one day plus the window; -1 is a timestamp one
\* second ahead of the clock.
Ages == {b + d : b \in {0, RECENT_WINDOW, SECONDS_PER_DAY,
                        SECONDS_PER_DAY + RECENT_WINDOW}, d \in {0 - 1, 0}}

Timestamps == {0 - a : a \in Ages}

\* Sequences over S of length at most n
SeqUpTo(S, n) == UNION {[1..k -> S] : k \in 0..n}

CmeSet == [earth_directed : BOOLEAN]

\* SolarFlare records; region "" stands for no region
Flares(classes, scales, timestamps) ==
    [class_type : classes, scale : scales, timestamp : timestamps, region : {""}]

-----------------------------------------------------------------------------
(* SpaceWeatherService: the classification functions *)

\* Mutant of _assess_gps_risk: the test for high is kp > 7
Mut_assess_gps_risk_strict(kp, cmes) ==
    IF kp > 70 \/ (\E i \in DOMAIN cmes : cmes[i].earth_directed) THEN "high"
    ELSE IF kp >= 50 THEN "moderate"
    ELSE IF kp >= 40 THEN "minor"
    ELSE "none"

_assess_gps_risk(kp, cmes) ==
    IF kp >= 70 \/ (\E i \in DOMAIN cmes : cmes[i].earth_directed) THEN "high"
    ELSE IF kp >= 50 THEN "moderate"
    ELSE IF kp >= 40 THEN "minor"
    ELSE "none"

\* timedelta.seconds of (t - timestamp): the days are dropped
TimedeltaSeconds(t, timestamp) == (t - timestamp) % SECONDS_PER_DAY

\* Mutant of RecentStrong: the class test is dropped
MutRecentStrong_any_class(flares, t) ==
    SelectSeq(flares, LAMBDA f :
        TimedeltaSeconds(t, f.timestamp) < RECENT_WINDOW)

\* recent_strong, the list comprehension of _assess_hf_radio_risk
RecentStrong(flares, t) ==
    SelectSeq(flares, LAMBDA f :
        /\ f.class_type \in {"M", "X"}
        /\ TimedeltaSeconds(t, f.timestamp) < RECENT_WINDOW)

_assess_hf_radio_risk(flares, t) ==
    IF flares = <<>> THEN "none"
    ELSE LET recent_strong == RecentStrong(flares, t)
         IN  IF (\E i \in DOMAIN recent_strong : recent_strong[i].class_type = "X") THEN "high"
             ELSE IF recent_strong # <<>> THEN "moderate"
             ELSE "minor"

\* Mutant of _assess_satellite_risk: the scale > 5 disjunct is dropped
Mut_assess_satellite_risk_no_scale(kp, flares, cmes) ==
    IF kp >= 80 THEN "high"
    ELSE IF kp >= 60 \/ (\E i \in DOMAIN flares : flares[i].class_type = "X") THEN "moderate"
    ELSE IF kp >= 50 THEN "minor"
    ELSE "none"

_assess_satellite_risk(kp, flares, cmes) ==
    IF kp >= 80
       \/ (\E i \in DOMAIN flares : flares[i].class_type = "X" /\ flares[i].scale > 50)
    THEN "high"
    ELSE IF kp >= 60 \/ (\E i \in DOMAIN flares : flares[i].class_type = "X") THEN "moderate"
    ELSE IF kp >= 50 THEN "minor"
    ELSE "none"

\* Mutant of _assess_aurora_visibility: the polar test is kp > 4
Mut_assess_aurora_visibility_strict(kp) ==
    IF kp >= 80 THEN "visible_mid_latitudes"
    ELSE IF kp >= 60 THEN "visible_high_latitudes"
    ELSE IF kp > 40 THEN "visible_polar_regions"
    ELSE "unlikely"

\* Mutant of _assess_aurora_visibility: the high-latitude band is closed at 7,
\* so a reading in [7, 8) falls through to the polar band
Mut_assess_aurora_visibility_gap(kp) ==
    IF kp >= 80 THEN "visible_mid_latitudes"
    ELSE IF kp >= 60 /\ kp < 70 THEN "visible_high_latitudes"
    ELSE IF kp >= 40 THEN "visible_polar_regions"
    ELSE "unlikely"

\* Mutant of _assess_aurora_visibility: a quiet reading is rated with the
\* word of the risk scale
Mut_assess_aurora_visibility_none(kp) ==
    IF kp >= 80 THEN "visible_mid_latitudes"
    ELSE IF kp >= 60 THEN "visible_high_latitudes"
    ELSE IF kp >= 40 THEN "visible_polar_regions"
    ELSE "none"

_assess_aurora_visibility(kp) ==
    IF kp >= 80 THEN "visible_mid_latitudes"
    ELSE IF kp >= 60 THEN "visible_high_latitudes"
    ELSE IF kp >= 40 THEN "visible_polar_regions"
    ELSE "unlikely"

\* str.capitalize() on the risk words
Capitalize(word) ==
    CASE word = "none" -> "None"
      [] word = "minor" -> "Minor"
      [] word = "moderate" -> "Moderate"
      [] word = "high" -> "High"

\* f"{kp:.1f}" of a kp counted in tenths
FormatKp(kp) ==
    IF kp < 0
    THEN "-" \o ToString((0 - kp) \div 10) \o "." \o ToString((0 - kp) % 10)
    ELSE ToString(kp \div 10) \o "." \o ToString(kp % 10)

\* "; ".join(parts), for a non-empty list
RECURSIVE Join(_)
Join(parts) ==
    IF Len(parts) = 1 THEN parts[1]
    ELSE parts[1] \o "; " \o Join(Tail(parts))

\* Mutant of _generate_status_summary: a moderate or high satellite risk adds
\* a third clause
Mut_generate_status_summary_sat_clause(kp, flares, cmes, gps_risk, hf_risk, sat_risk) ==
    LET kp_desc ==
            IF kp < 40 THEN "Quiet geomagnetic conditions"
            ELSE IF kp < 50 THEN "Unsettled geomagnetic conditions"
            ELSE IF kp < 60 THEN "Active geomagnetic conditions"
            ELSE IF kp < 70 THEN "Minor geomagnetic storm"
            ELSE IF kp < 80 THEN "Moderate geomagnetic storm"
            ELSE "Strong geomagnetic storm"
        summary == "Status: " \o kp_desc \o " (Kp " \o FormatKp(kp) \o ")."
        impacts ==
            (IF gps_risk \in {"moderate", "high"}
             THEN <<Capitalize(gps_risk) \o " GPS degradation possible">>
             ELSE <<>>)
            \o
            (IF hf_risk \in {"moderate", "high"}
             THEN <<Capitalize(hf_risk) \o " HF radio disruption">>
             ELSE <<>>)
            \o
            (IF sat_risk \in {"moderate", "high"}
             THEN <<Capitalize(sat_risk) \o " satellite risk">>
             ELSE <<>>)
    IN  IF impacts # <<>>
        THEN summary \o " " \o Join(impacts) \o "."
        ELSE summary \o " Most users unaffected."

_generate_status_summary(kp, flares, cmes, gps_risk, hf_risk, sat_risk) ==
    LET kp_desc ==
            IF kp < 40 THEN "Quiet geomagnetic conditions"
            ELSE IF kp < 50 THEN "Unsettled geomagnetic conditions"
            ELSE IF kp < 60 THEN "Active geomagnetic conditions"
            ELSE IF kp < 70 THEN "Minor geomagnetic storm"
            ELSE IF kp < 80 THEN "Moderate geomagnetic storm"
            ELSE "Strong geomagnetic storm"
        summary == "Status: " \o kp_desc \o " (Kp " \o FormatKp(kp) \o ")."
        impacts ==
            (IF gps_risk \in {"moderate", "high"}
             THEN <<Capitalize(gps_risk) \o " GPS degradation possible">>
             ELSE <<>>)
            \o
            (IF hf_risk \in {"moderate", "high"}
             THEN <<Capitalize(hf_risk) \o " HF radio disruption">>
             ELSE <<>>)
    IN  IF impacts # <<>>
        THEN summary \o " " \o Join(impacts) \o "."
        ELSE summary \o " Most users unaffected."

\* Optional[...] values
None == [is_none |-> TRUE, value |-> 0]
Some(v) == [is_none |-> FALSE, value |-> v]

\* get_current_status from "Determine impact levels" on: the status built from
\* the three (already defaulted) inputs, with the clock reading t
BuildStatus(kp, flares, cmes, t) ==
    LET gps_risk == _assess_gps_risk(kp, cmes)
        hf_risk == _assess_hf_radio_risk(flares, t)
        sat_risk == _assess_satellite_risk(kp, flares, cmes)
        aurora_vis == _assess_aurora_visibility(kp)
    IN  [timestamp |-> t,
         kp_current |-> kp,
         kp_forecast_3h |-> None,
         recent_flares |-> flares,
         active_cmes |-> cmes,
         gps_degradation_risk |-> gps_risk,
         hf_radio_risk |-> hf_risk,
         satellite_risk |-> sat_risk,
         aurora_visibility |-> aurora_vis,
         summary |-> _generate_status_summary(kp, flares, cmes,
                                              gps_risk, hf_risk, sat_risk)]

\* Mutant of what_happened: the flare clause carries the letter of the most
\* severe class present
Mut_what_happened_most_severe(status) ==
    LET strong_flares ==
            SelectSeq(status.recent_flares,
                      LAMBDA f : f.class_type \in {"M", "X"})
        letter ==
            IF \E i \in DOMAIN strong_flares : strong_flares[i].class_type = "X"
            THEN "X" ELSE "M"
        parts ==
            <<"Kp index: " \o FormatKp(status.kp_current)>>
            \o (IF status.recent_flares # <<>> /\ strong_flares # <<>>
                THEN <<ToString(Len(strong_flares)) \o " "
                       \o letter \o "-class solar flare(s)">>
                ELSE <<>>)
            \o (IF status.active_cmes # <<>>
                THEN <<ToString(Len(status.active_cmes)) \o " active CME(s)">>
                ELSE <<>>)
    IN  Join(parts)

\* generate_impact_explanation, "What happened": the Kp reading, then the
\* number of M- and X-class flares under the class letter of the first of
\* them, then the number of CMEs
what_happened(status) ==
    LET strong_flares ==
            SelectSeq(status.recent_flares,
                      LAMBDA f : f.class_type \in {"M", "X"})
        parts ==
            <<"Kp index: " \o FormatKp(status.kp_current)>>
            \o (IF status.recent_flares # <<>> /\ strong_flares # <<>>
                THEN <<ToString(Len(strong_flares)) \o " "
                       \o strong_flares[1].class_type \o "-class solar flare(s)">>
                ELSE <<>>)
            \o (IF status.active_cmes # <<>>
                THEN <<ToString(Len(status.active_cmes)) \o " active CME(s)">>
                ELSE <<>>)
    IN  Join(parts)

\* Mutant of potential_impacts: the GPS sentence needs a moderate or high
\* GPS risk
Mut_potential_impacts_gps_moderate(status) ==
    (IF status.gps_degradation_risk \in {"moderate", "high"}
     THEN <<"GPS accuracy may be reduced for precision applications">>
     ELSE <<>>)
    \o (IF status.hf_radio_risk # "none"
        THEN <<"HF radio communications may experience disruption">>
        ELSE <<>>)
    \o (IF status.satellite_risk # "none"
        THEN <<"Satellite operations may experience anomalies">>
        ELSE <<>>)
    \o (IF status.aurora_visibility # "unlikely"
        THEN <<"Aurora may be visible at lower latitudes than usual">>
        ELSE <<>>)

\* generate_impact_explanation, "Potential impacts"
potential_impacts(status) ==
    (IF status.gps_degradation_risk # "none"
     THEN <<"GPS accuracy may be reduced for precision applications">>
     ELSE <<>>)
    \o (IF status.hf_radio_risk # "none"
        THEN <<"HF radio communications may experience disruption">>
        ELSE <<>>)
    \o (IF status.satellite_risk # "none"
        THEN <<"Satellite operations may experience anomalies">>
        ELSE <<>>)
    \o (IF status.aurora_visibility # "unlikely"
        THEN <<"Aurora may be visible at lower latitudes than usual">>
        ELSE <<>>)

\* Mutant of who_cares: the satellite group is added for any satellite risk
\* other than none
Mut_who_cares_sat_minor(status) ==
    LET groups ==
            (IF status.gps_degradation_risk \in {"moderate", "high"}
             THEN <<"Drone operators", "Surveyors", "Aviation professionals">>
             ELSE <<>>)
            \o (IF status.hf_radio_risk \in {"moderate", "high"}
                THEN <<"Ham radio operators", "Maritime communications",
                       "Emergency services">>
                ELSE <<>>)
            \o (IF status.satellite_risk # "none"
                THEN <<"Satellite operators", "Space agencies">>
                ELSE <<>>)
    IN  IF groups = <<>> THEN <<"Space weather enthusiasts">> ELSE groups

\* generate_impact_explanation, "Who should care"
who_cares(status) ==
    LET groups ==
            (IF status.gps_degradation_risk \in {"moderate", "high"}
             THEN <<"Drone operators", "Surveyors", "Aviation professionals">>
             ELSE <<>>)
            \o (IF status.hf_radio_risk \in {"moderate", "high"}
                THEN <<"Ham radio operators", "Maritime communications",
                       "Emergency services">>
                ELSE <<>>)
            \o (IF status.satellite_risk \in {"moderate", "high"}
                THEN <<"Satellite operators", "Space agencies">>
                ELSE <<>>)
    IN  IF groups = <<>> THEN <<"Space weather enthusiasts">> ELSE groups

\* generate_impact_explanation, "Actionable guidance"
guidance(status) ==
    IF status.kp_current < 50
    THEN "Continue normal operations. Monitor for updates."
    ELSE IF status.kp_current < 70
    THEN "Monitor for GPS accuracy if doing precision work. "
         \o "Ham radio operators may experience propagation changes."
    ELSE "Consider delaying precision GPS work. Satellite operators "
         \o "should monitor spacecraft health. Aurora photographers: "
         \o "good opportunity tonight!"

\* Mutant of severity: the test for HIGH is kp > 7
Mut_severity_strict(status) ==
    IF status.kp_current > 70 THEN "high"
    ELSE IF status.kp_current >= 50 THEN "moderate"
    ELSE "info"

\* generate_impact_explanation, "Severity": AlertSeverity.HIGH, MODERATE or
\* INFO by their values
severity(status) ==
    IF status.kp_current >= 70 THEN "high"
    ELSE IF status.kp_current >= 50 THEN "moderate"
    ELSE "info"

\* The SpaceWeatherImpact of a status
generate_impact_explanation(status) ==
    [what_happened |-> what_happened(status),
     potential_impacts |-> potential_impacts(status),
     who_should_care |-> who_cares(status),
     actionable_guidance |-> guidance(status),
     severity |-> severity(status)]

-----------------------------------------------------------------------------
(* SatelliteService: the evaluation of one pass record of the provider *)

\* The "mag" entry of a pass record: the key may be missing, hold null, or
\* hold a number (tenths).
MagMissing == [kind |-> "missing", value |-> 0]
MagNull == [kind |-> "null", value |-> 0]
MagNumber(v) == [kind |-> "number", value |-> v]

\* pass_data.get("mag", default): the default only replaces a missing key
DictGetMag(pass_data, default) ==
    CASE pass_data.mag.kind = "missing" -> default
      [] pass_data.mag.kind = "null" -> None
      [] pass_data.mag.kind = "number" -> Some(pass_data.mag.value)

\* worth_watching = maxEl > 40 or (pass_data.get("mag", 5) < 0).  The right
\* operand is evaluated only when the left is false; None < 0 raises TypeError.
WorthWatching(pass_data) ==
    IF pass_data.maxEl > 40 THEN [raised |-> FALSE, value |-> TRUE]
    ELSE LET mag == DictGetMag(pass_data, Some(50))
         IN  IF mag.is_none THEN [raised |-> TRUE, value |-> FALSE]
             ELSE [raised |-> FALSE, value |-> mag.value < 0]

\* Mutant of _generate_commentary: Standard duration reaches up to 360 s
Mut_generate_commentary_long_after_360(pass_data, worth_watching) ==
    LET max_el == pass_data.maxEl
        duration == pass_data.duration
        visibility ==
            IF max_el > 70 THEN "Overhead pass! Excellent viewing."
            ELSE IF max_el > 50 THEN "High pass, very good viewing."
            ELSE IF max_el > 30 THEN "Good pass, should be easy to spot."
            ELSE "Moderate pass, clear sky recommended."
        time_note ==
            IF duration < 180 THEN "Quick pass"
            ELSE IF duration <= 360 THEN "Standard duration"
            ELSE "Long pass"
    IN  IF ~worth_watching
        THEN "Low pass, may not be easily visible."
        ELSE visibility \o " " \o time_note \o " (" \o ToString(duration) \o "s)."

_generate_commentary(pass_data, worth_watching) ==
    LET max_el == pass_data.maxEl
        duration == pass_data.duration
        visibility ==
            IF max_el > 70 THEN "Overhead pass! Excellent viewing."
            ELSE IF max_el > 50 THEN "High pass, very good viewing."
            ELSE IF max_el > 30 THEN "Good pass, should be easy to spot."
            ELSE "Moderate pass, clear sky recommended."
        time_note ==
            IF duration < 180 THEN "Quick pass"
            ELSE IF duration < 360 THEN "Standard duration"
            ELSE "Long pass"
    IN  IF ~worth_watching
        THEN "Low pass, may not be easily visible."
        ELSE visibility \o " " \o time_note \o " (" \o ToString(duration) \o "s)."

\* The server's offset from UTC in seconds (the server runs on UTC)
UtcOffset == 0

\* datetime.fromtimestamp(ts): the naive local time of a Unix timestamp, as
\* seconds on the server's local clock
FromTimestamp(ts) == ts + UtcOffset

\* The SatellitePass of a pass that raised nothing is read only when raised
\* is FALSE.
NoPass == [start_time |-> 0, max_elevation_time |-> 0, end_time |-> 0,
           max_elevation |-> 0, start_azimuth |-> 0, max_azimuth |-> 0,
           end_azimuth |-> 0, magnitude |-> None, duration_seconds |-> 0,
           worth_watching |-> FALSE, commentary |-> ""]

\* One iteration of the loop of _get_satellite_passes: the verdict, then the
\* SatellitePass built from the record.  The schema declares the types of
\* the fields and no range or ordering constraint, so building it checks
\* nothing about the values.
MakeSatellitePass(pass_data) ==
    LET ww == WorthWatching(pass_data)
    IN  IF ww.raised THEN [raised |-> TRUE, sat_pass |-> NoPass]
        ELSE [raised |-> FALSE,
              sat_pass |->
                [start_time |-> FromTimestamp(pass_data.startUTC),
                 max_elevation_time |-> FromTimestamp(pass_data.maxUTC),
                 end_time |-> FromTimestamp(pass_data.endUTC),
                 max_elevation |-> pass_data.maxEl,
                 start_azimuth |-> pass_data.startAz,
                 max_azimuth |-> pass_data.maxAz,
                 end_azimuth |-> pass_data.endAz,
                 magnitude |-> DictGetMag(pass_data, None),
                 duration_seconds |-> pass_data.duration,
                 worth_watching |-> ww.value,
                 commentary |-> _generate_commentary(pass_data, ww.value)]]

\* Elevations on both sides of the 30, 40, 50 and 70 degree tests, and the ends
ElValues == {0, 90} \cup {b + d : b \in {30, 40, 50, 70}, d \in {0 - 1, 0, 1}}

\* Durations on both sides of the 180 s and 360 s tests
DurValues == {b + d : b \in {180, 360}, d \in {0 - 1, 0, 1}}

\* Magnitudes: no key, null, and numbers on both sides of 0
MagValues == {MagMissing, MagNull} \cup {MagNumber(v) : v \in {0 - 35, 0 - 1, 0, 1}}

\* Values no pass has: elevations outside 0..90, azimuths outside 0..360,
\* durations of zero or less
ElOutOfRange == {0 - 1, 91}
AzOutOfRange == {0 - 1, 361}
DurOutOfRange == {0 - 1, 0}

\* Unix times (seconds) at which a pass that starts at 600 ends: before, at
\* and after its start
PassEnds == {300, 600, 900}

\* The pass records of an N2YO response.  The service reads each field on its
\* own, so every combination can be served.
PassRecords ==
    [maxEl : ElValues \cup ElOutOfRange,
     duration : DurValues \cup DurOutOfRange,
     mag : MagValues,
     startUTC : {600},
     maxUTC : {750},
     endUTC : PassEnds,
     startAz : {0, 360} \cup AzOutOfRange,
     maxAz : {180},
     endAz : {270}]

-----------------------------------------------------------------------------
(* SatelliteService: the tracked satellites and their passes *)

\* Satellite names, as the sequences of their characters
NameIssZarya == <<"I", "S", "S", " ", "(", "Z", "A", "R", "Y", "A", ")">>
NameSpaceStation ==
    <<"S", "P", "A", "C", "E", " ", "S", "T", "A", "T", "I", "O", "N">>
NameHst == <<"H", "S", "T">>
NameTianhe == <<"T", "I", "A", "N", "H", "E">>

\* SatelliteService.SATELLITES, in the order of the dict
SATELLITES ==
    <<[key |-> "ISS", norad_id |-> 25544, name |-> NameIssZarya],
      [key |-> "HUBBLE", norad_id |-> 20580, name |-> NameHst],
      [key |-> "TIANGONG", norad_id |-> 48274, name |-> NameTianhe]>>

SatKeys == {SATELLITES[i].key : i \in DOMAIN SATELLITES}

\* "ISS" in name
ContainsISS(name) ==
    \E i \in 1..(Len(name) - 2) :
        name[i] = "I" /\ name[i + 1] = "S" /\ name[i + 2] = "S"

\* A SatellitePass with the satellite_name and satellite_id of the response
WithInfo(sat_pass, info) ==
    [k \in DOMAIN sat_pass \cup {"satellite_name", "satellite_id"} |->
        IF k = "satellite_name" THEN info.satname
        ELSE IF k = "satellite_id" THEN info.satid
        ELSE sat_pass[k]]

\* _get_satellite_passes on the response of the provider: a failed request
\* raises, and so does a record whose verdict raises; otherwise one
\* SatellitePass per record, in the order served
_get_satellite_passes(response) ==
    IF response.outcome # "ok" THEN [raised |-> TRUE, value |-> <<>>]
    ELSE LET made == [i \in DOMAIN response.passes |->
                         MakeSatellitePass(response.passes[i])]
         IN  IF \E i \in DOMAIN made : made[i].raised
             THEN [raised |-> TRUE, value |-> <<>>]
             ELSE [raised |-> FALSE,
                   value |-> [i \in DOMAIN made |->
                                 WithInfo(made[i].sat_pass, response.info)]]

\* list.sort(key=lambda p: p.start_time): a stable sort.  InsertPass puts a
\* pass behind every pass that starts no later.
InsertPass(sorted, p) ==
    LET k == Cardinality({i \in DOMAIN sorted : sorted[i].start_time <= p.start_time})
    IN  SubSeq(sorted, 1, k) \o <<p>> \o SubSeq(sorted, k + 1, Len(sorted))

RECURSIVE SortByStart(_)
SortByStart(passes) ==
    IF passes = <<>> THEN <<>>
    ELSE InsertPass(SortByStart(SubSeq(passes, 1, Len(passes) - 1)),
                    passes[Len(passes)])

\* _get_demo_passes with the clock reading t (seconds counted from a
\* midnight UTC): two ISS passes, the first at the next 19:41
_get_demo_passes(t) ==
    LET at_19_41 == (t - (t % SECONDS_PER_DAY)) + 19 * 3600 + 41 * 60
        tonight_7pm == IF at_19_41 < t THEN at_19_41 + SECONDS_PER_DAY ELSE at_19_41
    IN  <<[satellite_name |-> NameIssZarya,
           satellite_id |-> 25544,
           start_time |-> tonight_7pm,
           max_elevation_time |-> tonight_7pm + 3 * 60,
           end_time |-> tonight_7pm + 6 * 60,
           max_elevation |-> 63,
           start_azimuth |-> 225,
           max_azimuth |-> 180,
           end_azimuth |-> 45,
           magnitude |-> Some(0 - 35),
           duration_seconds |-> 360,
           worth_watching |-> TRUE,
           commentary |-> "High pass, very good viewing. Standard duration (360s)."],
          [satellite_name |-> NameIssZarya,
           satellite_id |-> 25544,
           start_time |-> tonight_7pm + 13 * 3600,
           max_elevation_time |-> tonight_7pm + 13 * 3600 + 2 * 60,
           end_time |-> tonight_7pm + 13 * 3600 + 5 * 60,
           max_elevation |-> 45,
           start_azimuth |-> 270,
           max_azimuth |-> 180,
           end_azimuth |-> 90,
           magnitude |-> Some(0 - 28),
           duration_seconds |-> 300,
           worth_watching |-> TRUE,
           commentary |-> "Good pass, should be easy to spot. Standard duration (300s)."]>>

\* Mutant of NextIssPass: the first pass of the list, whatever its satellite
MutNextIssPass_any_satellite(passes) ==
    IF passes # <<>> THEN [is_none |-> FALSE, value |-> passes[1]]
    ELSE [is_none |-> TRUE, value |-> NoPass]

\* get_next_iss_pass after its await: the first pass whose name contains
\* "ISS", or None
NextIssPass(passes) ==
    LET iss_passes == SelectSeq(passes, LAMBDA p : ContainsISS(p.satellite_name))
    IN  IF iss_passes # <<>> THEN [is_none |-> FALSE, value |-> iss_passes[1]]
        ELSE [is_none |-> TRUE, value |-> NoPass]

\* A pass record of a response, starting at the Unix time start
FeedRecord(start, max_el, mag) ==
    [maxEl |-> max_el, duration |-> 300, mag |-> mag,
     startUTC |-> start, maxUTC |-> start + 150, endUTC |-> start + 300,
     startAz |-> 225, maxAz |-> 180, endAz |-> 45]

\* Records served: a high pass at each of three start times, and a low pass
\* whose "mag" is null
FeedRecords ==
    {FeedRecord(start, 45, MagMissing) : start \in {300, 600, 900}}
    \cup {FeedRecord(600, 30, MagNull)}

\* What N2YO answers for one satellite: a failed request, or data with the
\* name and id of the satellite and a list of passes
N2yoFailed == [outcome |-> "error", info |-> [satname |-> <<>>, satid |-> 0], passes |-> <<>>]
N2yoServed(satname, satid, passes) ==
    [outcome |-> "ok", info |-> [satname |-> satname, satid |-> satid],
     passes |-> passes]

\* The names N2YO may give a tracked satellite
ProviderNames(satellite) ==
    IF satellite.key = "ISS" THEN {NameIssZarya, NameSpaceStation}
    ELSE {satellite.name}

N2yoResponses(satellite) ==
    {N2yoFailed}
    \cup {N2yoServed(satname, satellite.norad_id, passes) :
            satname \in ProviderNames(satellite),
            passes \in SeqUpTo(FeedRecords, MaxPasses)}

\* Every assignment of a response to each tracked satellite
N2yoFeeds ==
    {[k \in SatKeys |-> CASE k = "ISS" -> iss
                         [] k = "HUBBLE" -> hubble
                         [] k = "TIANGONG" -> tiangong] :
        iss \in N2yoResponses(SATELLITES[1]),
        hubble \in N2yoResponses(SATELLITES[2]),
        tiangong \in N2yoResponses(SATELLITES[3])}

-----------------------------------------------------------------------------
(* The upstream feeds *)

\* One cell of a row of the NOAA table: float(cell) succeeds iff is_number
Cell(is_number, v) == [is_number |-> is_number, value |-> v]
\* One row of the table, or something that is no list
Row(is_list, cells) == [is_list |-> is_list, cells |-> cells]
\* response.json(): a list of rows, or something that is no list
Payload(is_list, rows) == [is_list |-> is_list, rows |-> rows]

HeaderRow == Row(TRUE, <<Cell(FALSE, 0), Cell(FALSE, 0)>>)
TimeTag == Cell(FALSE, 0)

\* Kp values a feed serves: the whole values 0.0 .. 9.0 and the two ends of
\* KpValues, which lie outside the Kp scale
FeedKpValues == {k \in KpValues : k % 10 = 0} \cup {0 - KpBelow, KP_MAX + KpAbove}

Payloads ==
    {Payload(FALSE, <<>>),
     Payload(TRUE, <<>>),
     Payload(TRUE, <<HeaderRow>>),
     Payload(TRUE, <<HeaderRow, Row(FALSE, <<>>)>>),
     Payload(TRUE, <<HeaderRow, Row(TRUE, <<TimeTag>>)>>),
     Payload(TRUE, <<HeaderRow, Row(TRUE, <<TimeTag, Cell(FALSE, 0)>>)>>)}
    \cup {Payload(TRUE, <<HeaderRow, Row(TRUE, <<TimeTag, Cell(TRUE, v)>>)>>) :
            v \in FeedKpValues}

\* What the HTTP request of _get_current_kp meets: a transport or status error,
\* a timeout, or a decoded body
KpResponses ==
    {[outcome |-> o, data |-> Payload(FALSE, <<>>)] : o \in {"error", "timeout"}}
    \cup {[outcome |-> "ok", data |-> d] : d \in Payloads}

\* What a list feed gives its coroutine: a raised exception or a list
Raised == [raised |-> TRUE, value |-> <<>>]
Served(list) == [raised |-> FALSE, value |-> list]

FeedFlareSet == Flares({"M", "X"}, {51}, {0, 0 - RECENT_WINDOW})

FlareFeeds == {Raised} \cup {Served(l) : l \in SeqUpTo(FeedFlareSet, MaxFeedItems)}
CmeFeeds == {Raised} \cup {Served(l) : l \in SeqUpTo(CmeSet, MaxFeedItems)}

-----------------------------------------------------------------------------
(* SpaceWeatherService.get_current_status *)

\* Mutant of _get_current_kp: the value is read from the first column
Mut_get_current_kp_first_column(response) ==
    LET failed == [value |-> KP_DEFAULT, events |-> <<"Kp fetch failed">>]
        default == [value |-> KP_DEFAULT, events |-> <<>>]
        data == response.data
    IN  IF response.outcome # "ok" THEN failed
        ELSE IF data.is_list /\ Len(data.rows) > 1
        THEN LET latest == data.rows[Len(data.rows)]
             IN  IF latest.is_list /\ Len(latest.cells) >= 2
                 THEN IF latest.cells[1].is_number
                      THEN [value |-> latest.cells[1].value, events |-> <<>>]
                      ELSE failed
                 ELSE default
        ELSE default

\* _get_current_kp on what its request met: the value returned and the
\* events logged.  Every exception is caught inside, so it never raises.
_get_current_kp(response) ==
    LET failed == [value |-> KP_DEFAULT, events |-> <<"Kp fetch failed">>]
        default == [value |-> KP_DEFAULT, events |-> <<>>]
        data == response.data
    IN  IF response.outcome # "ok" THEN failed
        ELSE IF data.is_list /\ Len(data.rows) > 1
        THEN LET latest == data.rows[Len(data.rows)]
             IN  IF latest.is_list /\ Len(latest.cells) >= 2
                 THEN IF latest.cells[2].is_number
                      THEN [value |-> latest.cells[2].value, events |-> <<>>]
                      ELSE failed
                 ELSE default
        ELSE default

\* _get_recent_flares and _get_active_cmes: what the coroutine hands to gather
_get_recent_flares(feed) == feed
_get_active_cmes(feed) == feed

\* A coroutine of asyncio.gather(..., return_exceptions=True)
NotStarted == [state |-> "none", raised |-> FALSE]
Pending == [state |-> "pending", raised |-> FALSE]
Done(raised, value) == [state |-> "done", raised |-> raised, value |-> value]

NoStatus == [timestamp |-> 0 - 1, kp_current |-> 0 - 1, summary |-> "none"]

\* _get_demo_status with the clock reading t
_get_demo_status(t) ==
    [timestamp |-> t,
     kp_current |-> 50,
     kp_forecast_3h |-> Some(53),
     recent_flares |-> <<[timestamp |-> t - 3 * 3600, class_type |-> "M",
                          scale |-> 52, region |-> "AR3590"]>>,
     active_cmes |-> <<>>,
     gps_degradation_risk |-> "minor",
     hf_radio_risk |-> "moderate",
     satellite_risk |-> "minor",
     aurora_visibility |-> "visible_high_latitudes",
     summary |-> "Status: Active geomagnetic conditions (Kp 5.0). "
                 \o "Minor GPS degradation possible; most users unaffected."]

Feeds == {"kp", "flares", "cmes"}

\* get_current_status with DEMO_MODE set
InvokeDemo ==
    /\ pc = "idle"
    /\ DEMO_MODE
    /\ returned' = _get_demo_status(now)
    /\ pc' = "done"
    /\ log' = <<>>
    /\ fetches' = [f \in Feeds |-> 0]
    /\ finished' = <<>>
    /\ UNCHANGED <<now, call, prevCall, DEMO_MODE, upstream, tasks,
                 satellites, scheduling>>

\* Mutant of InvokeLive: the feeds are fetched whatever DEMO_MODE says
MutInvokeLive_demo_unchecked ==
    /\ pc = "idle"
    /\ pc' = "gather"
    /\ tasks' = [f \in Feeds |-> Pending]
    /\ log' = <<>>
    /\ fetches' = [f \in Feeds |-> 0]
    /\ finished' = <<>>
    /\ returned' = NoStatus
    /\ UNCHANGED <<now, call, prevCall, DEMO_MODE, upstream,
                 satellites, scheduling>>

\* get_current_status with DEMO_MODE off: the three coroutines are handed to
\* asyncio.gather
InvokeLive ==
    /\ pc = "idle"
    /\ ~DEMO_MODE
    /\ pc' = "gather"
    /\ tasks' = [f \in Feeds |-> Pending]
    /\ log' = <<>>
    /\ fetches' = [f \in Feeds |-> 0]
    /\ finished' = <<>>
    /\ returned' = NoStatus
    /\ UNCHANGED <<now, call, prevCall, DEMO_MODE, upstream,
                 satellites, scheduling>>

\* Mutant of RunKp: a fetch that fails or times out is issued again, up to
\* three attempts, before the default is taken
MutRunKp_retry ==
    /\ pc = "gather"
    /\ tasks.kp.state = "pending"
    /\ LET r == _get_current_kp(upstream.kp)
       IN  IF upstream.kp.outcome # "ok" /\ fetches.kp < 2
           THEN UNCHANGED <<tasks, log, finished>>
           ELSE /\ tasks' = [tasks EXCEPT !.kp = Done(FALSE, r.value)]
                /\ log' = log \o r.events
                /\ finished' = Append(finished, "kp")
    /\ fetches' = [fetches EXCEPT !.kp = @ + 1]
    /\ UNCHANGED <<now, call, prevCall, DEMO_MODE, upstream, pc, returned,
                 satellites, scheduling>>

RunKp ==
    /\ pc = "gather"
    /\ tasks.kp.state = "pending"
    /\ LET r == _get_current_kp(upstream.kp)
       IN  /\ tasks' = [tasks EXCEPT !.kp = Done(FALSE, r.value)]
           /\ log' = log \o r.events
    /\ fetches' = [fetches EXCEPT !.kp = @ + 1]
    /\ finished' = Append(finished, "kp")
    /\ UNCHANGED <<now, call, prevCall, DEMO_MODE, upstream, pc, returned,
                 satellites, scheduling>>

RunFlares ==
    /\ pc = "gather"
    /\ tasks.flares.state = "pending"
    /\ LET r == _get_recent_flares(upstream.flares)
       IN  tasks' = [tasks EXCEPT !.flares = Done(r.raised, r.value)]
    /\ fetches' = [fetches EXCEPT !.flares = @ + 1]
    /\ finished' = Append(finished, "flares")
    /\ UNCHANGED <<now, call, prevCall, DEMO_MODE, upstream, pc, log, returned,
                 satellites, scheduling>>

RunCmes ==
    /\ pc = "gather"
    /\ tasks.cmes.state = "pending"
    /\ LET r == _get_active_cmes(upstream.cmes)
       IN  tasks' = [tasks EXCEPT !.cmes = Done(r.raised, r.value)]
    /\ fetches' = [fetches EXCEPT !.cmes = @ + 1]
    /\ finished' = Append(finished, "cmes")
    /\ UNCHANGED <<now, call, prevCall, DEMO_MODE, upstream, pc, log, returned,
                 satellites, scheduling>>

\* "Handle exceptions": the value used for each feed and the events logged
HandleExceptions(results) ==
    [kp |-> IF results.kp.raised THEN KP_DEFAULT ELSE results.kp.value,
     flares |-> IF results.flares.raised THEN <<>> ELSE results.flares.value,
     cmes |-> IF results.cmes.raised THEN <<>> ELSE results.cmes.value,
     events |->
        (IF results.kp.raised THEN <<"Failed to fetch Kp">> ELSE <<>>)
        \o (IF results.flares.raised THEN <<"Failed to fetch flares">> ELSE <<>>)
        \o (IF results.cmes.raised THEN <<"Failed to fetch CMEs">> ELSE <<>>)]

\* Mutant of Finish: the status is built as soon as one coroutine has
\* completed, a coroutine still pending counting as failed
MutFinish_first_completed ==
    /\ pc = "gather"
    /\ \E f \in Feeds : tasks[f].state = "done"
    /\ LET h == HandleExceptions(
                    [f \in Feeds |-> IF tasks[f].state = "done"
                                     THEN tasks[f] ELSE Done(TRUE, <<>>)])
       IN  /\ log' = log \o h.events
           /\ returned' = BuildStatus(h.kp, h.flares, h.cmes, now)
    /\ pc' = "done"
    /\ UNCHANGED <<now, call, prevCall, DEMO_MODE, upstream, tasks, fetches, finished,
                 satellites, scheduling>>

\* gather has all three results: the rest of get_current_status runs without
\* another await
Finish ==
    /\ pc = "gather"
    /\ \A f \in Feeds : tasks[f].state = "done"
    /\ LET h == HandleExceptions(tasks)
       IN  /\ log' = log \o h.events
           /\ returned' = BuildStatus(h.kp, h.flares, h.cmes, now)
    /\ pc' = "done"
    /\ UNCHANGED <<now, call, prevCall, DEMO_MODE, upstream, tasks, fetches, finished,
                 satellites, scheduling>>

\* The caller has the status; the service is ready for the next invocation
Return ==
    /\ pc = "done"
    /\ pc' = "idle"
    /\ tasks' = [f \in Feeds |-> NotStarted]
    /\ UNCHANGED <<now, call, prevCall, DEMO_MODE, upstream, log, fetches, finished, returned,
                 satellites, scheduling>>

\* An hour of wall-clock time passes
Tick ==
    /\ now < MaxTicks * RECENT_WINDOW
    /\ now' = now + RECENT_WINDOW
    /\ UNCHANGED <<call, prevCall, DEMO_MODE, upstream, pc, tasks, log, fetches, finished, returned,
                 satellites, scheduling>>

NoCall == [fn |-> "none"]

\* get_overhead_satellites and get_next_iss_pass before any call of them
OverheadIdle ==
    [pc |-> "idle", fn |-> "none", i |-> 1, passes |-> <<>>,
     fetches |-> [k \in SatKeys |-> 0], log |-> <<>>,
     returned |-> <<>>, next |-> [is_none |-> TRUE, value |-> NoPass]]

\* The satellite service at rest, N2YO failing for every satellite
SatellitesIdle ==
    /\ n2yo = [k \in SatKeys |-> N2yoFailed]
    /\ overhead = OverheadIdle

\* scheduler.py as imported: "scheduler: AsyncIOScheduler = None", nothing
\* created, no task run
NoScheduler == 0
TaskIdle ==
    [pc |-> "idle", runs |-> 0, outcome |-> "none", ended |-> "none",
     log |-> <<>>, tle_runs |-> 0]
NoCallYet == [fn |-> "none", changed |-> FALSE, last |-> "none", event |-> "none"]
SchedulingIdle ==
    /\ scheduler = NoScheduler
    /\ instances = <<>>
    /\ lastChange = NoCallYet
    /\ task = TaskIdle

\* get_current_status before any call of it
AggregatorIdle ==
    /\ pc = "idle"
    /\ tasks = [f \in Feeds |-> NotStarted]
    /\ log = <<>>
    /\ fetches = [f \in Feeds |-> 0]
    /\ finished = <<>>
    /\ returned = NoStatus

Init ==
    /\ now = 0
    /\ call = NoCall
    /\ prevCall = NoCall
    /\ DEMO_MODE \in BOOLEAN
    /\ upstream \in [kp : KpResponses, flares : FlareFeeds, cmes : CmeFeeds]
    /\ AggregatorIdle
    /\ SatellitesIdle
    /\ SchedulingIdle

Next ==
    \/ InvokeDemo
    \/ InvokeLive
    \/ RunKp
    \/ RunFlares
    \/ RunCmes
    \/ Finish
    \/ Return
    \/ Tick

Spec == Init /\ [][Next]_vars

-----------------------------------------------------------------------------
(* The classification functions on their own: each action is one call, with  *)
(* its arguments, and for the functions that read the clock the reading of   *)
(* datetime.utcnow(), drawn from bounded sets.  A behaviour is one call (and, *)
(* for the status assessment, its repetitions).                              *)

aggregator == <<DEMO_MODE, upstream, pc, tasks, log, fetches, finished, returned>>

\* Clock readings: whole hours from the start of the model
Instants == {k * RECENT_WINDOW : k \in 0..MaxTicks}

\* Flare lists that exercise the recency test: every class at every age
HfFlareLists == SeqUpTo(Flares(FlareClasses, {51}, Timestamps), MaxFlares)

\* Flare lists that exercise the scale test: every class at every scale
SatFlareLists == SeqUpTo(Flares(FlareClasses, ScaleValues, {0}), MaxFlares)

CmeLists == SeqUpTo(CmeSet, MaxCmes)

\* Inputs of a whole status assessment
StatusFlareSet ==
    Flares(FlareClasses, {50, 51},
           {0, 1 - RECENT_WINDOW, 0 - RECENT_WINDOW, 0 - SECONDS_PER_DAY})
StatusFlareLists == SeqUpTo(StatusFlareSet, MaxFeedItems)
StatusCmeLists == SeqUpTo(CmeSet, MaxFeedItems)

CallGps ==
    /\ call = NoCall
    /\ \E kp \in KpValues, cmes \in CmeLists :
         call' = [fn |-> "_assess_gps_risk",
                  args |-> [kp |-> kp, cmes |-> cmes],
                  ret |-> _assess_gps_risk(kp, cmes)]
    /\ prevCall' = NoCall
    /\ UNCHANGED <<now, aggregator,
                 satellites, scheduling>>

CallHf ==
    /\ call = NoCall
    /\ \E flares \in HfFlareLists, t \in Instants :
         call' = [fn |-> "_assess_hf_radio_risk",
                  args |-> [flares |-> flares],
                  at |-> t,
                  ret |-> _assess_hf_radio_risk(flares, t)]
    /\ prevCall' = NoCall
    /\ UNCHANGED <<now, aggregator,
                 satellites, scheduling>>

CallSat ==
    /\ call = NoCall
    /\ \E kp \in KpValues, flares \in SatFlareLists,
          cmes \in {<<>>, <<[earth_directed |-> TRUE]>>} :
         call' = [fn |-> "_assess_satellite_risk",
                  args |-> [kp |-> kp, flares |-> flares, cmes |-> cmes],
                  ret |-> _assess_satellite_risk(kp, flares, cmes)]
    /\ prevCall' = NoCall
    /\ UNCHANGED <<now, aggregator,
                 satellites, scheduling>>

CallAurora ==
    /\ call = NoCall
    /\ \E kp \in KpValues :
         call' = [fn |-> "_assess_aurora_visibility",
                  args |-> [kp |-> kp],
                  ret |-> _assess_aurora_visibility(kp)]
    /\ prevCall' = NoCall
    /\ UNCHANGED <<now, aggregator,
                 satellites, scheduling>>

\* One pass record of the provider through the loop of _get_satellite_passes
CallPass ==
    /\ call = NoCall
    /\ \E pass_data \in PassRecords :
         call' = [fn |-> "_get_satellite_passes",
                  args |-> [pass_data |-> pass_data],
                  ret |-> MakeSatellitePass(pass_data)]
    /\ prevCall' = NoCall
    /\ UNCHANGED <<now, aggregator,
                 satellites, scheduling>>

\* _generate_commentary on a pass record and either verdict
CallCommentary ==
    /\ call = NoCall
    /\ \E pass_data \in [maxEl : ElValues, duration : DurValues, mag : {MagMissing}],
          worth_watching \in BOOLEAN :
         call' = [fn |-> "_generate_commentary",
                  args |-> [pass_data |-> pass_data,
                            worth_watching |-> worth_watching],
                  ret |-> _generate_commentary(pass_data, worth_watching)]
    /\ prevCall' = NoCall
    /\ UNCHANGED <<now, aggregator,
                 satellites, scheduling>>

\* The values of a risk rating
RiskLevels == {"none", "minor", "moderate", "high"}

\* _generate_status_summary on a kp and any three ratings
CallSummary ==
    /\ call = NoCall
    /\ \E kp \in KpValues, gps_risk \in RiskLevels, hf_risk \in RiskLevels,
          sat_risk \in RiskLevels :
         call' = [fn |-> "_generate_status_summary",
                  args |-> [kp |-> kp, gps_risk |-> gps_risk,
                            hf_risk |-> hf_risk, sat_risk |-> sat_risk],
                  ret |-> _generate_status_summary(kp, <<>>, <<>>, gps_risk,
                                                   hf_risk, sat_risk)]
    /\ prevCall' = NoCall
    /\ UNCHANGED <<now, aggregator,
                 satellites, scheduling>>

\* The values of the aurora rating
AuroraLevels ==
    {"unlikely", "visible_polar_regions", "visible_high_latitudes",
     "visible_mid_latitudes"}

\* Statuses carrying every combination of the four ratings, at kp readings
\* on both sides of 5.0 and 7.0
RatedStatuses ==
    {[timestamp |-> 0, kp_current |-> kp, kp_forecast_3h |-> None,
      recent_flares |-> <<>>, active_cmes |-> <<>>,
      gps_degradation_risk |-> gps, hf_radio_risk |-> hf,
      satellite_risk |-> sat, aurora_visibility |-> aurora,
      summary |-> _generate_status_summary(kp, <<>>, <<>>, gps, hf, sat)] :
        kp \in {49, 50, 69, 70}, gps \in RiskLevels, hf \in RiskLevels,
        sat \in RiskLevels, aurora \in AuroraLevels}

\* Statuses as get_current_status builds them, for every kp and over flares
\* of every class and CMEs of both kinds
BuiltStatuses ==
    {BuildStatus(kp, flares, cmes, 0) :
        kp \in KpValues,
        flares \in SeqUpTo(Flares(FlareClasses, {51}, {0}), MaxFlares),
        cmes \in SeqUpTo(CmeSet, MaxCmes)}

\* generate_impact_explanation on a status
CallImpact ==
    /\ call = NoCall
    /\ \E status \in RatedStatuses \cup BuiltStatuses :
         call' = [fn |-> "generate_impact_explanation",
                  args |-> [status |-> status],
                  ret |-> generate_impact_explanation(status)]
    /\ prevCall' = NoCall
    /\ UNCHANGED <<now, aggregator,
                 satellites, scheduling>>

\* The status assessment of get_current_status on given inputs
CallStatus ==
    /\ call = NoCall
    /\ \E kp \in FeedKpValues, flares \in StatusFlareLists,
          cmes \in StatusCmeLists, t \in Instants :
         call' = [fn |-> "get_current_status",
                  args |-> [kp |-> kp, flares |-> flares, cmes |-> cmes],
                  at |-> t,
                  ret |-> BuildStatus(kp, flares, cmes, t)]
    /\ prevCall' = NoCall
    /\ UNCHANGED <<now, aggregator,
                 satellites, scheduling>>

\* The same assessment once more, on identical inputs, at a later instant
CallStatusAgain ==
    /\ call.fn = "get_current_status"
    /\ \E t \in Instants :
         /\ t > call.at
         /\ call' = [call EXCEPT
                       !.at = t,
                       !.ret = BuildStatus(call.args.kp, call.args.flares,
                                           call.args.cmes, t)]
    /\ prevCall' = call
    /\ UNCHANGED <<now, aggregator,
                 satellites, scheduling>>

\* The same flares and CMEs assessed once more at the same instant, under a
\* higher Kp reading.  Taken at the first instant only: the flares' own
\* timestamps already place them at every age relative to it.
CallStatusHigherKp ==
    /\ call.fn = "get_current_status"
    /\ prevCall = NoCall
    /\ call.at = 0
    /\ \E kp \in FeedKpValues :
         /\ kp > call.args.kp
         /\ call' = [call EXCEPT
                       !.args.kp = kp,
                       !.ret = BuildStatus(kp, call.args.flares,
                                           call.args.cmes, call.at)]
    /\ prevCall' = call
    /\ UNCHANGED <<now, aggregator,
                 satellites, scheduling>>

InitPure ==
    /\ now = 0
    /\ call = NoCall
    /\ prevCall = NoCall
    /\ DEMO_MODE = FALSE
    /\ upstream = [kp |-> [outcome |-> "error", data |-> Payload(FALSE, <<>>)],
                   flares |-> Served(<<>>), cmes |-> Served(<<>>)]
    /\ AggregatorIdle
    /\ SatellitesIdle
    /\ SchedulingIdle

NextPure ==
    \/ CallGps
    \/ CallHf
    \/ CallSat
    \/ CallAurora
    \/ CallPass
    \/ CallCommentary
    \/ CallSummary
    \/ CallImpact
    \/ CallStatus
    \/ CallStatusAgain
    \/ CallStatusHigherKp

SpecPure == InitPure /\ [][NextPure]_vars

-----------------------------------------------------------------------------
(* SatelliteService: get_overhead_satellites and get_next_iss_pass.  A      *)
(* behaviour is one call of either.                                         *)

OverheadFns == {"get_overhead_satellites", "get_next_iss_pass"}

\* What get_next_iss_pass returns once get_overhead_satellites has returned
\* passes to it; get_overhead_satellites called on its own returns the list
NextOf(fn, passes) ==
    IF fn = "get_next_iss_pass" THEN NextIssPass(passes)
    ELSE [is_none |-> TRUE, value |-> NoPass]

\* get_overhead_satellites with DEMO_MODE set, called on its own or by
\* get_next_iss_pass
GetOverheadDemo ==
    /\ overhead.pc = "idle"
    /\ DEMO_MODE
    /\ \E fn \in OverheadFns :
         overhead' = [OverheadIdle EXCEPT
                        !.pc = "done",
                        !.fn = fn,
                        !.returned = _get_demo_passes(now),
                        !.next = NextOf(fn, _get_demo_passes(now))]
    /\ UNCHANGED <<now, call, prevCall, aggregator, n2yo, scheduling>>

\* get_overhead_satellites with DEMO_MODE off: "passes = []" and the loop
\* over SATELLITES begins
GetOverheadLive ==
    /\ overhead.pc = "idle"
    /\ ~DEMO_MODE
    /\ \E fn \in OverheadFns :
         overhead' = [OverheadIdle EXCEPT !.pc = "loop", !.fn = fn]
    /\ UNCHANGED <<now, call, prevCall, aggregator, n2yo, scheduling>>

\* Mutant of FetchPasses: an exception of _get_satellite_passes ends the
\* loop, and the passes collected so far are dropped
MutFetchPasses_abort ==
    /\ overhead.pc = "loop"
    /\ overhead.i <= Len(SATELLITES)
    /\ LET key == SATELLITES[overhead.i].key
           r == _get_satellite_passes(n2yo[key])
       IN  overhead' = [overhead EXCEPT
                          !.i = IF r.raised THEN Len(SATELLITES) + 1 ELSE @ + 1,
                          !.fetches[key] = @ + 1,
                          !.passes = IF r.raised THEN <<>> ELSE @ \o r.value,
                          !.log = IF r.raised
                                  THEN Append(@, "Failed to get passes") ELSE @]
    /\ UNCHANGED <<now, call, prevCall, aggregator, n2yo, scheduling>>

\* One iteration of the loop: the passes of the satellite are fetched and
\* appended, or the failure is logged and the loop goes on
FetchPasses ==
    /\ overhead.pc = "loop"
    /\ overhead.i <= Len(SATELLITES)
    /\ LET key == SATELLITES[overhead.i].key
           r == _get_satellite_passes(n2yo[key])
       IN  overhead' = [overhead EXCEPT
                          !.i = @ + 1,
                          !.fetches[key] = @ + 1,
                          !.passes = IF r.raised THEN @ ELSE @ \o r.value,
                          !.log = IF r.raised
                                  THEN Append(@, "Failed to get passes") ELSE @]
    /\ UNCHANGED <<now, call, prevCall, aggregator, n2yo, scheduling>>

\* The loop is over: the passes are sorted and returned, and
\* get_next_iss_pass picks its pass from them
GetOverheadFinish ==
    /\ overhead.pc = "loop"
    /\ overhead.i > Len(SATELLITES)
    /\ overhead' = [overhead EXCEPT
                       !.pc = "done",
                       !.returned = SortByStart(overhead.passes),
                       !.next = NextOf(overhead.fn, SortByStart(overhead.passes))]
    /\ UNCHANGED <<now, call, prevCall, aggregator, n2yo, scheduling>>

InitSat ==
    /\ now = 0
    /\ call = NoCall
    /\ prevCall = NoCall
    /\ DEMO_MODE \in BOOLEAN
    /\ upstream = [kp |-> [outcome |-> "error", data |-> Payload(FALSE, <<>>)],
                   flares |-> Served(<<>>), cmes |-> Served(<<>>)]
    /\ AggregatorIdle
    /\ n2yo \in N2yoFeeds
    /\ overhead = OverheadIdle
    /\ SchedulingIdle

NextSat ==
    \/ GetOverheadDemo
    \/ GetOverheadLive
    \/ FetchPasses
    \/ GetOverheadFinish

SpecSat == InitSat /\ [][NextSat]_vars

-----------------------------------------------------------------------------
(* The two services side by side under one DEMO_MODE setting: calls of      *)
(* get_current_status and one call of the satellite service, interleaved    *)
(* at their awaits.                                                         *)

\* The weather feeds: every feed failing, or Kp 5.0 with one flare and no CME
BackendUpstreams ==
    {[kp |-> [outcome |-> "error", data |-> Payload(FALSE, <<>>)],
      flares |-> Raised, cmes |-> Raised]}
    \cup {[kp |-> [outcome |-> "ok",
                   data |-> Payload(TRUE, <<HeaderRow,
                                Row(TRUE, <<TimeTag, Cell(TRUE, 50)>>)>>)],
           flares |-> Served(<<f>>), cmes |-> Served(<<>>)] :
            f \in FeedFlareSet}

\* N2YO: every request failing, or the ISS and Hubble served and Tiangong
\* failing
BackendN2yo ==
    {[k \in SatKeys |-> N2yoFailed],
     [k \in SatKeys |->
        CASE k = "ISS" ->
               N2yoServed(NameIssZarya, 25544, <<FeedRecord(900, 45, MagMissing)>>)
          [] k = "HUBBLE" ->
               N2yoServed(NameHst, 20580, <<FeedRecord(300, 45, MagMissing)>>)
          [] k = "TIANGONG" -> N2yoFailed]}

\* The clock readings of a behaviour: it starts at midnight or at 20:00,
\* after the 19:41 of _get_demo_passes
ClockReadings ==
    {k * RECENT_WINDOW : k \in 0..MaxTicks} \cup {20 * 3600}

InitBackend ==
    /\ now \in {0, 20 * 3600}
    /\ call = NoCall
    /\ prevCall = NoCall
    /\ DEMO_MODE \in BOOLEAN
    /\ upstream \in BackendUpstreams
    /\ AggregatorIdle
    /\ n2yo \in BackendN2yo
    /\ overhead = OverheadIdle
    /\ SchedulingIdle

NextBackend ==
    \/ InvokeDemo
    \/ InvokeLive
    \/ RunKp
    \/ RunFlares
    \/ RunCmes
    \/ Finish
    \/ Return
    \/ Tick
    \/ GetOverheadDemo
    \/ GetOverheadLive
    \/ FetchPasses
    \/ GetOverheadFinish

SpecBackend == InitBackend /\ [][NextBackend]_vars

-----------------------------------------------------------------------------
(* scheduler.py: start_scheduler, stop_scheduler and the periodic tasks.    *)
(* instances holds every AsyncIOScheduler created so far; the global        *)
(* scheduler is NoScheduler or the place of one of them.  lastChange        *)
(* records the last call of start_scheduler or stop_scheduler: its name,    *)
(* whether it changed the global, the last call that did, and what it       *)
(* logged.  Neither function awaits, so each call is one step.              *)

JOBS == <<"space_weather_update", "tle_update">>

\* AsyncIOScheduler() after the two add_job calls and start()
StartedScheduler == [running |-> TRUE, jobs |-> JOBS]

\* The job with this id is due on the running scheduler
JobDue(id) ==
    /\ scheduler # NoScheduler
    /\ instances[scheduler].running
    /\ \E j \in DOMAIN instances[scheduler].jobs : instances[scheduler].jobs[j] = id

\* Mutant of StartScheduler: a scheduler is created whether or not one exists
MutStartScheduler_unguarded ==
    /\ Len(instances) < MaxStarts
    /\ instances' = Append(instances, StartedScheduler)
    /\ scheduler' = Len(instances) + 1
    /\ lastChange' = [fn |-> "start_scheduler", changed |-> TRUE,
                      last |-> "start_scheduler",
                      event |-> "Background scheduler started"]
    /\ UNCHANGED <<now, call, prevCall, aggregator, satellites, task>>

StartScheduler ==
    /\ IF scheduler # NoScheduler
       THEN /\ lastChange' = [lastChange EXCEPT
                                !.fn = "start_scheduler", !.changed = FALSE,
                                !.event = "Scheduler already running"]
            /\ UNCHANGED <<scheduler, instances>>
       ELSE /\ Len(instances) < MaxStarts
            /\ instances' = Append(instances, StartedScheduler)
            /\ scheduler' = Len(instances) + 1
            /\ lastChange' = [fn |-> "start_scheduler", changed |-> TRUE,
                              last |-> "start_scheduler",
                              event |-> "Background scheduler started"]
    /\ UNCHANGED <<now, call, prevCall, aggregator, satellites, task>>

\* stop_scheduler.  shutdown() cancels a job that is waiting at its await.
StopScheduler ==
    /\ IF scheduler = NoScheduler
       THEN /\ lastChange' = [lastChange EXCEPT
                                !.fn = "stop_scheduler", !.changed = FALSE,
                                !.event = "none"]
            /\ UNCHANGED <<scheduler, instances, task>>
       ELSE /\ instances' = [instances EXCEPT ![scheduler].running = FALSE]
            /\ scheduler' = NoScheduler
            /\ lastChange' = [fn |-> "stop_scheduler", changed |-> TRUE,
                              last |-> "stop_scheduler",
                              event |-> "Background scheduler stopped"]
            /\ task' = IF task.pc = "awaiting"
                       THEN [task EXCEPT !.pc = "idle", !.outcome = "cancelled",
                                         !.ended = "cancelled"]
                       ELSE task
    /\ UNCHANGED <<now, call, prevCall, aggregator, satellites>>

\* The scheduler runs update_space_weather up to its await
RunSpaceWeatherUpdate ==
    /\ JobDue("space_weather_update")
    /\ task.pc = "idle"
    /\ task.runs < MaxRuns
    /\ task' = [task EXCEPT !.pc = "awaiting", !.runs = @ + 1,
                            !.outcome = "none", !.ended = "none",
                            !.log = Append(@, "Updating space weather data")]
    /\ UNCHANGED <<now, call, prevCall, aggregator, satellites,
                   scheduler, instances, lastChange>>

\* What the await of get_current_status may give the task
StatusOutcomes == {"status", "raised"}

\* Mutant of FinishSpaceWeatherUpdate: only the success is handled, an
\* exception of get_current_status leaves the task
MutFinishSpaceWeatherUpdate_uncaught ==
    /\ task.pc = "awaiting"
    /\ \E outcome \in StatusOutcomes :
         task' = [task EXCEPT
                    !.pc = "idle",
                    !.outcome = outcome,
                    !.ended = IF outcome = "status" THEN "normally" ELSE "raised",
                    !.log = IF outcome = "status"
                            THEN Append(@, "Space weather updated") ELSE @]
    /\ UNCHANGED <<now, call, prevCall, aggregator, satellites,
                   scheduler, instances, lastChange>>

\* get_current_status returns a status or raises: the rest of
\* update_space_weather
FinishSpaceWeatherUpdate ==
    /\ task.pc = "awaiting"
    /\ \E outcome \in StatusOutcomes :
         task' = [task EXCEPT
                    !.pc = "idle",
                    !.outcome = outcome,
                    !.ended = "normally",
                    !.log = Append(@, IF outcome = "status"
                                      THEN "Space weather updated"
                                      ELSE "Failed to update space weather")]
    /\ UNCHANGED <<now, call, prevCall, aggregator, satellites,
                   scheduler, instances, lastChange>>

\* The scheduler runs update_tle_data, which has no await
RunTleUpdate ==
    /\ JobDue("tle_update")
    /\ task.tle_runs < MaxRuns
    /\ task' = [task EXCEPT !.tle_runs = @ + 1]
    /\ UNCHANGED <<now, call, prevCall, aggregator, satellites,
                   scheduler, instances, lastChange>>

InitScheduler ==
    /\ now = 0
    /\ call = NoCall
    /\ prevCall = NoCall
    /\ DEMO_MODE = FALSE
    /\ upstream = [kp |-> [outcome |-> "error", data |-> Payload(FALSE, <<>>)],
                   flares |-> Served(<<>>), cmes |-> Served(<<>>)]
    /\ AggregatorIdle
    /\ SatellitesIdle
    /\ SchedulingIdle

NextScheduler ==
    \/ StartScheduler
    \/ StopScheduler
    \/ RunSpaceWeatherUpdate
    \/ FinishSpaceWeatherUpdate
    \/ RunTleUpdate

SpecScheduler == InitScheduler /\ [][NextScheduler]_vars

-----------------------------------------------------------------------------
(* Properties of the classification functions, checked under SpecPure *)

IsCall(fn) == call.fn = fn

EarthDirected(cmes) == \E i \in DOMAIN cmes : cmes[i].earth_directed
HasClass(flares, c) == \E i \in DOMAIN flares : flares[i].class_type = c

\* C1: _assess_gps_risk returns high iff kp >= 7 or some CME is
\* earth-directed; otherwise moderate iff kp >= 5, minor iff kp >= 4, and none
\* below 4.  An earth-directed CME gives high at every kp.
C1_GpsRisk ==
    IsCall("_assess_gps_risk") =>
        LET kp == call.args.kp
            directed == EarthDirected(call.args.cmes)
        IN  /\ (call.ret = "high") <=> (kp >= 70 \/ directed)
            /\ (call.ret = "moderate") <=> (~directed /\ kp >= 50 /\ kp < 70)
            /\ (call.ret = "minor") <=> (~directed /\ kp >= 40 /\ kp < 50)
            /\ (call.ret = "none") <=> (~directed /\ kp < 40)

\* C1 witness: an earth-directed CME at a kp under 4.0 was rated high
C1_Witness ==
    /\ IsCall("_assess_gps_risk")
    /\ call.args.kp < 40
    /\ EarthDirected(call.args.cmes)
    /\ call.ret = "high"

\* Seconds elapsed between a flare's timestamp and the evaluation instant
Elapsed(flare) == call.at - flare.timestamp

\* C2: a flare list made only of flares observed 3600 seconds or more before
\* the evaluation (a day or more included) is never rated moderate or high by
\* _assess_hf_radio_risk: it is rated minor.
C2_OldFlaresAreMinor ==
    (/\ IsCall("_assess_hf_radio_risk")
     /\ call.args.flares # <<>>
     /\ \A i \in DOMAIN call.args.flares :
            Elapsed(call.args.flares[i]) >= RECENT_WINDOW)
    => call.ret = "minor"

\* C3: _assess_hf_radio_risk returns none for an empty list; for a non-empty
\* list of flares all observed within the last hour it returns high iff some
\* flare is class X, moderate iff some flare is class M and none is X, and
\* minor iff every flare is class C.
C3_HfRiskOfRecentFlares ==
    IsCall("_assess_hf_radio_risk") =>
        LET flares == call.args.flares
            allRecent == \A i \in DOMAIN flares :
                            /\ Elapsed(flares[i]) >= 0
                            /\ Elapsed(flares[i]) < RECENT_WINDOW
        IN  /\ flares = <<>> => call.ret = "none"
            /\ (flares # <<>> /\ allRecent) =>
                 /\ (call.ret = "high") <=> HasClass(flares, "X")
                 /\ (call.ret = "moderate") <=>
                        (HasClass(flares, "M") /\ ~HasClass(flares, "X"))
                 /\ (call.ret = "minor") <=>
                        (\A i \in DOMAIN flares : flares[i].class_type = "C")

\* C3 witness: a class C and a class M flare, both of the last hour, were
\* rated moderate
C3_Witness ==
    /\ IsCall("_assess_hf_radio_risk")
    /\ Len(call.args.flares) = 2
    /\ \A i \in DOMAIN call.args.flares :
          Elapsed(call.args.flares[i]) \in 0..(RECENT_WINDOW - 1)
    /\ HasClass(call.args.flares, "C")
    /\ HasClass(call.args.flares, "M")
    /\ call.ret = "moderate"

\* C4: _assess_satellite_risk returns high if kp >= 8 or some X flare has
\* scale > 5; otherwise moderate if kp >= 6 or some X flare exists; otherwise
\* minor if kp >= 5; otherwise none.
C4_SatelliteRisk ==
    IsCall("_assess_satellite_risk") =>
        LET kp == call.args.kp
            flares == call.args.flares
            bigX == \E i \in DOMAIN flares :
                        flares[i].class_type = "X" /\ flares[i].scale > 50
            anyX == HasClass(flares, "X")
        IN  /\ (kp >= 80 \/ bigX) => call.ret = "high"
            /\ (~(kp >= 80 \/ bigX) /\ (kp >= 60 \/ anyX)) => call.ret = "moderate"
            /\ (~(kp >= 80 \/ bigX) /\ ~(kp >= 60 \/ anyX) /\ kp >= 50)
                  => call.ret = "minor"
            /\ (~bigX /\ ~anyX /\ kp < 50) => call.ret = "none"

\* C4 witness: an X flare of scale above 5 at kp = 3.0 was rated high
C4_Witness ==
    /\ IsCall("_assess_satellite_risk")
    /\ call.args.kp = 30
    /\ \E i \in DOMAIN call.args.flares :
          call.args.flares[i].class_type = "X" /\ call.args.flares[i].scale > 50
    /\ call.ret = "high"

\* C5: _assess_aurora_visibility returns visible_mid_latitudes for kp >= 8,
\* visible_high_latitudes for 6 <= kp < 8, visible_polar_regions for
\* 4 <= kp < 6 and unlikely for kp < 4.
C5_AuroraVisibility ==
    IsCall("_assess_aurora_visibility") =>
        LET kp == call.args.kp
        IN  /\ kp >= 80 => call.ret = "visible_mid_latitudes"
            /\ (kp >= 60 /\ kp < 80) => call.ret = "visible_high_latitudes"
            /\ (kp >= 40 /\ kp < 60) => call.ret = "visible_polar_regions"
            /\ kp < 40 => call.ret = "unlikely"

\* C5 witness: kp exactly 4.0 was rated visible_polar_regions
C5_Witness ==
    /\ IsCall("_assess_aurora_visibility")
    /\ call.args.kp = 40
    /\ call.ret = "visible_polar_regions"

\* C6: every pass record of the provider gets a verdict, and worth_watching is
\* true iff max elevation > 40 or the magnitude is a number below 0; a record
\* whose magnitude is missing or null gets the verdict (max elevation > 40).
C6_VerdictForEveryRecord ==
    IsCall("_get_satellite_passes") =>
        LET pass_data == call.args.pass_data
        IN  /\ ~call.ret.raised
            /\ call.ret.sat_pass.worth_watching <=>
                  \/ pass_data.maxEl > 40
                  \/ (pass_data.mag.kind = "number" /\ pass_data.mag.value < 0)

\* The visibility clause and the duration note as the claim words them
VisibilityClause(max_el) ==
    CASE max_el > 70 -> "Overhead pass! Excellent viewing."
      [] max_el > 50 /\ max_el <= 70 -> "High pass, very good viewing."
      [] max_el > 30 /\ max_el <= 50 -> "Good pass, should be easy to spot."
      [] max_el <= 30 -> "Moderate pass, clear sky recommended."

DurationNote(duration) ==
    CASE duration < 180 -> "Quick pass"
      [] duration >= 180 /\ duration < 360 -> "Standard duration"
      [] duration >= 360 -> "Long pass"

\* C7: _generate_commentary returns the fixed low-pass text whenever
\* worth_watching is false, whatever the duration and elevation; otherwise
\* "<visibility> <duration note> (<duration>s)." with the clauses banded by
\* elevation (70, 50, 30) and duration (180, 360).
C7_Commentary ==
    IsCall("_generate_commentary") =>
        LET pass_data == call.args.pass_data
        IN  IF call.args.worth_watching
            THEN call.ret = VisibilityClause(pass_data.maxEl) \o " "
                            \o DurationNote(pass_data.duration)
                            \o " (" \o ToString(pass_data.duration) \o "s)."
            ELSE call.ret = "Low pass, may not be easily visible."

\* C7 witness: a pass worth watching at 30 degrees lasting exactly 360 s got
\* the Moderate clause and the Long pass note
C7_Witness ==
    /\ IsCall("_generate_commentary")
    /\ call.args.worth_watching
    /\ call.args.pass_data.maxEl = 30
    /\ call.args.pass_data.duration = 360
    /\ call.ret = "Moderate pass, clear sky recommended. Long pass (360s)."

\* A record no real pass produces: it ends no later than it starts, or its
\* peak elevation is outside 0..90, or an azimuth is outside 0..360, or its
\* duration is not positive
Malformed(pass_data) ==
    \/ pass_data.endUTC <= pass_data.startUTC
    \/ pass_data.maxEl < 0
    \/ pass_data.maxEl > 90
    \/ \E az \in {pass_data.startAz, pass_data.maxAz, pass_data.endAz} :
          az < 0 \/ az > 360
    \/ pass_data.duration <= 0

\* C14: a pass record with malformed geometry or an out-of-range value is
\* rejected: _get_satellite_passes raises on it and builds no SatellitePass
\* with a verdict and a commentary from it.
C14_MalformedRecordsRejected ==
    (IsCall("_get_satellite_passes") /\ Malformed(call.args.pass_data))
    => call.ret.raised

\* C10: two status assessments on identical kp, flares and CMEs, made at two
\* different instants, return statuses equal in every field.
C10_SameInputsSameStatus ==
    (/\ IsCall("get_current_status")
     /\ prevCall.fn = "get_current_status"
     /\ prevCall.args = call.args
     /\ prevCall.at # call.at)
    => call.ret = prevCall.ret

\* Severity orders of the ratings
RiskRank(risk) ==
    CASE risk = "none" -> 0
      [] risk = "minor" -> 1
      [] risk = "moderate" -> 2
      [] risk = "high" -> 3

AuroraRank(visibility) ==
    CASE visibility = "unlikely" -> 0
      [] visibility = "visible_polar_regions" -> 1
      [] visibility = "visible_high_latitudes" -> 2
      [] visibility = "visible_mid_latitudes" -> 3

\* Two assessments of the same flares and CMEs at the same instant, the later
\* one under a Kp at least as high, both readings within [0, 9]
SameEventsHigherKp ==
    /\ IsCall("get_current_status")
    /\ prevCall.fn = "get_current_status"
    /\ prevCall.args.flares = call.args.flares
    /\ prevCall.args.cmes = call.args.cmes
    /\ prevCall.at = call.at
    /\ 0 <= prevCall.args.kp
    /\ prevCall.args.kp <= call.args.kp
    /\ call.args.kp <= KP_MAX

\* C11: with the flares and CMEs held fixed, raising kp within [0, 9] never
\* lowers any of the four ratings (GPS, HF, satellite under none < minor <
\* moderate < high; aurora under unlikely < polar < high < mid latitudes).
C11_RatingsMonotoneInKp ==
    SameEventsHigherKp
    => /\ RiskRank(call.ret.gps_degradation_risk)
            >= RiskRank(prevCall.ret.gps_degradation_risk)
       /\ RiskRank(call.ret.hf_radio_risk)
            >= RiskRank(prevCall.ret.hf_radio_risk)
       /\ RiskRank(call.ret.satellite_risk)
            >= RiskRank(prevCall.ret.satellite_risk)
       /\ AuroraRank(call.ret.aurora_visibility)
            >= AuroraRank(prevCall.ret.aurora_visibility)

\* Kp raised from 6 to 7 over an X flare: GPS and aurora stay or rise, the
\* satellite rating stays high
C11_Witness ==
    /\ SameEventsHigherKp
    /\ prevCall.args.kp = 60
    /\ call.args.kp = 70
    /\ HasClass(call.args.flares, "X")
    /\ prevCall.ret.gps_degradation_risk = "moderate"
    /\ call.ret.gps_degradation_risk = "high"
    /\ prevCall.ret.aurora_visibility = "visible_high_latitudes"
    /\ call.ret.aurora_visibility = "visible_high_latitudes"

\* C16 (as amended): at kp exactly 7.0 the GPS risk is high with or without
\* an earth-directed CME, the test for high being kp >= 7; kp alone gives
\* only moderate on 5 <= kp < 7, and below 7 the rating high is reached only
\* through the earth-directed-CME override.
C16_SevenAloneIsHigh ==
    IsCall("_assess_gps_risk") =>
        /\ call.args.kp = 70 => call.ret = "high"
        /\ (~EarthDirected(call.args.cmes) /\ call.args.kp >= 50 /\ call.args.kp < 70)
              => call.ret = "moderate"
        /\ (call.ret = "high" /\ call.args.kp < 70) => EarthDirected(call.args.cmes)

\* kp = 7.0 with one CME that is not earth-directed was rated high
C16_Witness ==
    /\ IsCall("_assess_gps_risk")
    /\ call.args.kp = 70
    /\ call.args.cmes = <<[earth_directed |-> FALSE]>>
    /\ call.ret = "high"

\* C16 as stated: at kp = 7.0 without an earth-directed CME the GPS risk is
\* moderate
C16_SevenAloneIsModerate ==
    (/\ IsCall("_assess_gps_risk")
     /\ call.args.kp = 70
     /\ ~EarthDirected(call.args.cmes))
    => call.ret = "moderate"

\* The band of a kp in the summary
KpBand(kp) ==
    CASE kp < 40 -> "Quiet geomagnetic conditions"
      [] kp >= 40 /\ kp < 50 -> "Unsettled geomagnetic conditions"
      [] kp >= 50 /\ kp < 60 -> "Active geomagnetic conditions"
      [] kp >= 60 /\ kp < 70 -> "Minor geomagnetic storm"
      [] kp >= 70 /\ kp < 80 -> "Moderate geomagnetic storm"
      [] kp >= 80 -> "Strong geomagnetic storm"

\* C17: the summary is "Status: <band> (Kp <kp to 1 decimal>)." followed by
\* the GPS clause iff gps_risk is moderate or high and the HF clause iff
\* hf_risk is moderate or high (GPS first, joined by "; ", closed by "."), or
\* by "Most users unaffected." iff neither clause is present; sat_risk plays
\* no part in it.
C17_StatusSummary ==
    IsCall("_generate_status_summary") =>
        LET head == "Status: " \o KpBand(call.args.kp)
                      \o " (Kp " \o FormatKp(call.args.kp) \o ")."
            gps == call.args.gps_risk \in {"moderate", "high"}
            hf == call.args.hf_risk \in {"moderate", "high"}
            gps_clause == Capitalize(call.args.gps_risk) \o " GPS degradation possible"
            hf_clause == Capitalize(call.args.hf_risk) \o " HF radio disruption"
        IN  call.ret =
              CASE gps /\ hf -> head \o " " \o gps_clause \o "; " \o hf_clause \o "."
                [] gps /\ ~hf -> head \o " " \o gps_clause \o "."
                [] ~gps /\ hf -> head \o " " \o hf_clause \o "."
                [] ~gps /\ ~hf -> head \o " Most users unaffected."

\* Both clauses present at kp 6.5 under a high satellite risk
C17_Witness ==
    /\ IsCall("_generate_status_summary")
    /\ call.args.kp = 65
    /\ call.args.gps_risk = "high"
    /\ call.args.hf_risk = "moderate"
    /\ call.args.sat_risk = "high"
    /\ call.ret = "Status: Minor geomagnetic storm (Kp 6.5). "
                    \o "High GPS degradation possible; Moderate HF radio disruption."

\* The place of each impact sentence in the fixed order GPS, HF, satellite,
\* aurora
ImpactSentences ==
    <<"GPS accuracy may be reduced for precision applications",
      "HF radio communications may experience disruption",
      "Satellite operations may experience anomalies",
      "Aurora may be visible at lower latitudes than usual">>

\* The sentence at place k is among the impacts returned
HasImpact(k) ==
    \E i \in DOMAIN call.ret.potential_impacts :
        call.ret.potential_impacts[i] = ImpactSentences[k]

\* C18: potential_impacts holds the GPS sentence iff the GPS risk is not
\* none, the HF sentence iff the HF risk is not none, the satellite sentence
\* iff the satellite risk is not none and the aurora sentence iff the aurora
\* visibility is not unlikely, each whatever the other three ratings are;
\* it holds nothing else, and its sentences stand in the order GPS, HF,
\* satellite, aurora without repetition.
C18_PotentialImpacts ==
    IsCall("generate_impact_explanation") =>
        LET status == call.args.status
            impacts == call.ret.potential_impacts
        IN  /\ HasImpact(1) <=> status.gps_degradation_risk # "none"
            /\ HasImpact(2) <=> status.hf_radio_risk # "none"
            /\ HasImpact(3) <=> status.satellite_risk # "none"
            /\ HasImpact(4) <=> status.aurora_visibility # "unlikely"
            /\ \A i \in DOMAIN impacts :
                  \E k \in DOMAIN ImpactSentences : impacts[i] = ImpactSentences[k]
            /\ \A i, j \in DOMAIN impacts :
                  i < j => \E k, l \in DOMAIN ImpactSentences :
                              /\ impacts[i] = ImpactSentences[k]
                              /\ impacts[j] = ImpactSentences[l]
                              /\ k < l

\* A minor GPS risk and a visible aurora under no HF and no satellite risk:
\* the GPS sentence, then the aurora sentence
C18_Witness ==
    /\ IsCall("generate_impact_explanation")
    /\ call.args.status.gps_degradation_risk = "minor"
    /\ call.args.status.hf_radio_risk = "none"
    /\ call.args.status.satellite_risk = "none"
    /\ call.args.status.aurora_visibility = "visible_polar_regions"
    /\ call.ret.potential_impacts = <<ImpactSentences[1], ImpactSentences[4]>>

\* A rating that puts its group into who_should_care
Concerning(risk) == risk \in {"moderate", "high"}

\* C19: who_should_care is the GPS group, the HF group and the satellite
\* group, in this order, each present iff its risk is moderate or high; it is
\* never empty, and it is exactly ["Space weather enthusiasts"] iff no risk is
\* moderate or high.
C19_WhoShouldCare ==
    IsCall("generate_impact_explanation") =>
        LET status == call.args.status
            who == call.ret.who_should_care
            groups ==
                (IF Concerning(status.gps_degradation_risk)
                 THEN <<"Drone operators", "Surveyors", "Aviation professionals">>
                 ELSE <<>>)
                \o (IF Concerning(status.hf_radio_risk)
                    THEN <<"Ham radio operators", "Maritime communications",
                           "Emergency services">>
                    ELSE <<>>)
                \o (IF Concerning(status.satellite_risk)
                    THEN <<"Satellite operators", "Space agencies">>
                    ELSE <<>>)
        IN  /\ who # <<>>
            /\ groups # <<>> => who = groups
            /\ who = <<"Space weather enthusiasts">>
                  <=> ~(\/ Concerning(status.gps_degradation_risk)
                        \/ Concerning(status.hf_radio_risk)
                        \/ Concerning(status.satellite_risk))

\* A high HF risk beside minor GPS and satellite risks: the HF group alone
C19_Witness ==
    /\ IsCall("generate_impact_explanation")
    /\ call.args.status.gps_degradation_risk = "minor"
    /\ call.args.status.hf_radio_risk = "high"
    /\ call.args.status.satellite_risk = "minor"
    /\ call.ret.who_should_care =
          <<"Ham radio operators", "Maritime communications", "Emergency services">>

\* C20: the severity of an impact explanation is high iff kp_current >= 7,
\* moderate iff 5 <= kp_current < 7, info iff kp_current < 5: a function of
\* kp_current alone, non-decreasing in it.
C20_SeverityByKp ==
    IsCall("generate_impact_explanation") =>
        LET kp == call.args.status.kp_current
        IN  /\ call.ret.severity = "high" <=> kp >= 70
            /\ call.ret.severity = "moderate" <=> (kp >= 50 /\ kp < 70)
            /\ call.ret.severity = "info" <=> kp < 50

\* kp exactly 7.0 under four ratings of none/unlikely: severity high
C20_Witness ==
    /\ IsCall("generate_impact_explanation")
    /\ call.args.status.kp_current = 70
    /\ call.args.status.gps_degradation_risk = "none"
    /\ call.args.status.hf_radio_risk = "none"
    /\ call.args.status.satellite_risk = "none"
    /\ call.args.status.aurora_visibility = "unlikely"
    /\ call.ret.severity = "high"

\* The places of the M and X flares in a flare list
StrongPlaces(flares) ==
    {i \in DOMAIN flares : flares[i].class_type \in {"M", "X"}}

\* C21: what_happened carries a flare clause iff the status has an M or X
\* flare; the clause gives the number of M and X flares together under the
\* class letter of the first of them in list order.  It carries a CME clause
\* with the number of CMEs iff the status has a CME.  The clauses follow the
\* Kp reading in this order, joined by "; ".
C21_WhatHappened ==
    IsCall("generate_impact_explanation") =>
        LET status == call.args.status
            flares == status.recent_flares
            strong == StrongPlaces(flares)
            first == CHOOSE i \in strong : \A j \in strong : i <= j
            flare_clause ==
                IF strong = {} THEN ""
                ELSE "; " \o ToString(Cardinality(strong)) \o " "
                     \o flares[first].class_type \o "-class solar flare(s)"
            cme_clause ==
                IF status.active_cmes = <<>> THEN ""
                ELSE "; " \o ToString(Len(status.active_cmes)) \o " active CME(s)"
        IN  call.ret.what_happened =
                "Kp index: " \o FormatKp(status.kp_current)
                \o flare_clause \o cme_clause

\* An M flare followed by an X flare, with two CMEs: two M-class flares
C21_Witness ==
    /\ IsCall("generate_impact_explanation")
    /\ Len(call.args.status.recent_flares) = 2
    /\ call.args.status.recent_flares[1].class_type = "M"
    /\ call.args.status.recent_flares[2].class_type = "X"
    /\ Len(call.args.status.active_cmes) = 2
    /\ call.args.status.kp_current = 50
    /\ call.ret.what_happened =
          "Kp index: 5.0; 2 M-class solar flare(s); 2 active CME(s)"

\* Only C flares and no CME: the Kp reading alone
C21_WitnessNoClause ==
    /\ IsCall("generate_impact_explanation")
    /\ call.args.status.recent_flares # <<>>
    /\ StrongPlaces(call.args.status.recent_flares) = {}
    /\ call.args.status.active_cmes = <<>>
    /\ call.args.status.kp_current = 30
    /\ call.ret.what_happened = "Kp index: 3.0"

-----------------------------------------------------------------------------
(* Properties of get_current_status, checked under Spec *)

\* The Kp feed served a table whose last row holds a number in its second column
KpReadable(response) ==
    /\ response.outcome = "ok"
    /\ response.data.is_list
    /\ Len(response.data.rows) > 1
    /\ LET latest == response.data.rows[Len(response.data.rows)]
       IN  /\ latest.is_list
           /\ Len(latest.cells) >= 2
           /\ latest.cells[2].is_number

\* The number the Kp feed served
ServedKp(response) == response.data.rows[Len(response.data.rows)].cells[2].value

LiveDone == pc = "done" /\ ~DEMO_MODE

\* C8 (as amended): with demo mode off, whichever of the three feeds fail,
\* get_current_status returns a status; kp_current is 3.0 if the Kp fetch
\* failed, recent_flares and active_cmes are empty if their fetch failed, and
\* the value of every feed that succeeded is exactly what its fetch returned
\* (which for Kp may itself be 3.0).
C8_DefaultsAndPassThrough ==
    LiveDone =>
        /\ returned # NoStatus
        /\ returned.kp_current =
              IF KpReadable(upstream.kp) THEN ServedKp(upstream.kp) ELSE KP_DEFAULT
        /\ returned.recent_flares =
              IF upstream.flares.raised THEN <<>> ELSE upstream.flares.value
        /\ returned.active_cmes =
              IF upstream.cmes.raised THEN <<>> ELSE upstream.cmes.value

\* C8 witness: all three feeds failed and a status with the three defaults
\* was returned
C8_Witness ==
    /\ LiveDone
    /\ upstream.kp.outcome = "timeout"
    /\ upstream.flares.raised
    /\ upstream.cmes.raised
    /\ returned.kp_current = KP_DEFAULT
    /\ returned.recent_flares = <<>>
    /\ returned.active_cmes = <<>>
    /\ returned.gps_degradation_risk = "none"

\* C8 as stated: kp_current is 3.0 if and only if the Kp fetch failed
C8_KpDefaultIffFailed ==
    LiveDone => (returned.kp_current = KP_DEFAULT <=> ~KpReadable(upstream.kp))

\* The logged failure events that name the Kp feed
KpEvents == SelectSeq(log, LAMBDA e : e \in {"Kp fetch failed", "Failed to fetch Kp"})

\* C9: an invocation in which kp = 3.0 is a substituted default (the fetch
\* raised, timed out, or served a payload no Kp can be read from) logs exactly
\* one failure event naming the Kp feed; an invocation without substitution
\* logs none.
C9_OneEventPerKpDefault ==
    LiveDone =>
        Len(KpEvents) = IF KpReadable(upstream.kp) THEN 0 ELSE 1

\* What the three coroutines hand to gather, read off the feeds alone
GatherResults ==
    [kp |-> Done(FALSE, _get_current_kp(upstream.kp).value),
     flares |-> Done(upstream.flares.raised, upstream.flares.value),
     cmes |-> Done(upstream.cmes.raised, upstream.cmes.value)]

\* C12: once get_current_status is in gather all three fetches have been
\* started; while any of them is unfinished no status (no rating, no summary)
\* exists; the status is built only after all three have finished, and it is
\* the one determined by what the feeds serve and the clock, whatever the
\* order in which the fetches finished.
C12_AllStartedAllAwaited ==
    /\ pc = "gather" =>
          /\ \A f \in Feeds : tasks[f].state \in {"pending", "done"}
          /\ returned = NoStatus
    /\ LiveDone =>
          /\ \A f \in Feeds : tasks[f].state = "done"
          /\ Len(finished) = 3
          /\ {finished[i] : i \in DOMAIN finished} = Feeds
          /\ LET h == HandleExceptions(GatherResults)
             IN  returned = BuildStatus(h.kp, h.flares, h.cmes, returned.timestamp)

\* The fetches finished in the reverse of the order they were handed to
\* gather, and the status carries the Kp and the flare the feeds served
C12_Witness ==
    /\ LiveDone
    /\ finished = <<"cmes", "flares", "kp">>
    /\ KpReadable(upstream.kp)
    /\ returned.kp_current = 70
    /\ returned.recent_flares # <<>>
    /\ returned.gps_degradation_risk = "high"

\* Two fetches have finished and the third is still running: no status yet
C12_WitnessWaiting ==
    /\ pc = "gather"
    /\ finished = <<"flares", "kp">>
    /\ tasks.cmes.state = "pending"
    /\ returned = NoStatus

\* C13: within one invocation of get_current_status no feed is fetched more
\* than once, and a live invocation that has returned fetched each feed
\* exactly once, a failed or timed-out fetch included: its default is taken
\* and the fetch is not issued again.
C13_EachFeedFetchedOnce ==
    /\ \A f \in Feeds : fetches[f] <= 1
    /\ LiveDone => \A f \in Feeds : fetches[f] = 1
    /\ (LiveDone /\ upstream.kp.outcome # "ok") => returned.kp_current = KP_DEFAULT
    /\ (LiveDone /\ upstream.flares.raised) => returned.recent_flares = <<>>
    /\ (LiveDone /\ upstream.cmes.raised) => returned.active_cmes = <<>>

\* The Kp fetch timed out and the CME fetch failed while the flare feed
\* served a flare: each was fetched once and the two defaults were taken
C13_Witness ==
    /\ LiveDone
    /\ upstream.kp.outcome = "timeout"
    /\ ~upstream.flares.raised
    /\ upstream.flares.value # <<>>
    /\ upstream.cmes.raised
    /\ \A f \in Feeds : fetches[f] = 1
    /\ returned.kp_current = KP_DEFAULT
    /\ returned.recent_flares = upstream.flares.value
    /\ returned.active_cmes = <<>>

\* C15: every status get_current_status returns has kp_current within
\* [0, 9], whatever number the geomagnetic feed served.
C15_KpCurrentWithinScale ==
    pc = "done" => (0 <= returned.kp_current /\ returned.kp_current <= KP_MAX)

-----------------------------------------------------------------------------
(* Properties of the satellite service, checked under SpecSat *)

LiveOverheadDone == overhead.pc = "done" /\ ~DEMO_MODE

\* The pass fetch of the satellite at place i of SATELLITES succeeded
FetchSucceeded(i) == ~_get_satellite_passes(n2yo[SATELLITES[i].key]).raised

\* How many times a pass occurs in a list
Occurrences(passes, p) == Cardinality({i \in DOMAIN passes : passes[i] = p})

\* The passes N2YO served for the satellites whose fetch succeeded
PassesOfSucceeded ==
    UNION {{_get_satellite_passes(n2yo[SATELLITES[i].key]).value[j] :
              j \in DOMAIN _get_satellite_passes(n2yo[SATELLITES[i].key]).value} :
           i \in {k \in DOMAIN SATELLITES : FetchSucceeded(k)}}

\* C27: with demo mode off, whatever subset of the three pass fetches fails,
\* get_overhead_satellites returns a list: every pass of every satellite
\* whose fetch succeeded, as often as it was served, no pass of a satellite
\* whose fetch failed, the empty list when all failed; the list is in
\* non-decreasing order of start_time, and every satellite was tried.
C27_PartialFailure ==
    LiveOverheadDone =>
        LET ret == overhead.returned
        IN  /\ \A k \in SatKeys : overhead.fetches[k] = 1
            /\ \A i \in DOMAIN SATELLITES :
                  LET r == _get_satellite_passes(n2yo[SATELLITES[i].key])
                  IN  IF r.raised
                      THEN \A j \in DOMAIN ret :
                              ret[j].satellite_id # SATELLITES[i].norad_id
                      ELSE \A j \in DOMAIN r.value :
                              Occurrences(ret, r.value[j])
                                = Occurrences(r.value, r.value[j])
            /\ \A j \in DOMAIN ret : ret[j] \in PassesOfSucceeded
            /\ (\A i \in DOMAIN SATELLITES : ~FetchSucceeded(i)) => ret = <<>>
            /\ \A i, j \in DOMAIN ret :
                  i < j => ret[i].start_time <= ret[j].start_time

\* The ISS fetch failed, Hubble's pass starts at 900 and Tiangong's at 300:
\* the two passes are returned, Tiangong's first
C27_Witness ==
    /\ LiveOverheadDone
    /\ ~FetchSucceeded(1)
    /\ Len(overhead.returned) = 2
    /\ overhead.returned[1].satellite_id = 48274
    /\ overhead.returned[1].start_time = FromTimestamp(300)
    /\ overhead.returned[2].satellite_id = 20580
    /\ overhead.returned[2].start_time = FromTimestamp(900)
    /\ overhead.log = <<"Failed to get passes">>

\* The places of the passes of a list whose satellite name contains "ISS"
IssPlaces(passes) ==
    {i \in DOMAIN passes : ContainsISS(passes[i].satellite_name)}

\* C28: get_next_iss_pass returns None iff no pass returned by
\* get_overhead_satellites has a name containing "ISS"; otherwise it returns
\* one of those passes, and none of them starts earlier than it.
C28_NextIssPass ==
    (overhead.pc = "done" /\ overhead.fn = "get_next_iss_pass") =>
        LET passes == overhead.returned
            iss == IssPlaces(passes)
        IN  /\ overhead.next.is_none <=> iss = {}
            /\ ~overhead.next.is_none =>
                  /\ \E i \in iss : overhead.next.value = passes[i]
                  /\ \A i \in iss :
                        overhead.next.value.start_time <= passes[i].start_time

\* Hubble's pass starts at 300 and the pass of "ISS (ZARYA)" at 900: the ISS
\* pass is returned
C28_Witness ==
    /\ LiveOverheadDone
    /\ overhead.fn = "get_next_iss_pass"
    /\ Len(overhead.returned) >= 2
    /\ overhead.returned[1].satellite_name = NameHst
    /\ overhead.returned[1].start_time = FromTimestamp(300)
    /\ ~overhead.next.is_none
    /\ overhead.next.value.satellite_name = NameIssZarya
    /\ overhead.next.value.start_time = FromTimestamp(900)

\* N2YO names the station "SPACE STATION" and serves a pass of it: the name
\* does not contain "ISS" and None is returned
C28_WitnessNone ==
    /\ LiveOverheadDone
    /\ overhead.fn = "get_next_iss_pass"
    /\ \E j \in DOMAIN overhead.returned :
          overhead.returned[j].satellite_name = NameSpaceStation
    /\ overhead.next.is_none

-----------------------------------------------------------------------------
(* Properties of demo mode, checked under SpecBackend *)

DemoStatusReturned == returned = _get_demo_status(returned.timestamp)
DemoPassesReturned ==
    \E t \in ClockReadings : t <= now /\ overhead.returned = _get_demo_passes(t)

\* C22: with DEMO_MODE on, a finished get_current_status has fetched no feed,
\* started no coroutine and logged nothing, and returned the demo status of
\* the time of the call; a finished get_overhead_satellites has requested the
\* passes of no satellite and returned the demo passes; both whatever the
\* feeds would have answered.  With DEMO_MODE off neither result is the demo
\* result, and every feed and every satellite was requested.
C22_DemoMode ==
    /\ (pc = "done" /\ DEMO_MODE) =>
          /\ \A f \in Feeds : fetches[f] = 0 /\ tasks[f] = NotStarted
          /\ log = <<>>
          /\ DemoStatusReturned
    /\ (overhead.pc = "done" /\ DEMO_MODE) =>
          /\ \A k \in SatKeys : overhead.fetches[k] = 0
          /\ overhead.log = <<>>
          /\ DemoPassesReturned
    /\ (pc = "done" /\ ~DEMO_MODE) =>
          /\ \A f \in Feeds : fetches[f] = 1
          /\ ~DemoStatusReturned
    /\ (overhead.pc = "done" /\ ~DEMO_MODE) =>
          /\ \A k \in SatKeys : overhead.fetches[k] = 1
          /\ ~DemoPassesReturned

\* Demo mode with every feed failing: both calls have returned their demo
\* result, the passes at 20:00 being those of the next day's 19:41
C22_Witness ==
    /\ DEMO_MODE
    /\ upstream.kp.outcome = "error" /\ upstream.flares.raised /\ upstream.cmes.raised
    /\ \A k \in SatKeys : n2yo[k] = N2yoFailed
    /\ pc = "done" /\ returned = _get_demo_status(20 * 3600)
    /\ overhead.pc = "done"
    /\ overhead.returned[1].start_time = SECONDS_PER_DAY + 19 * 3600 + 41 * 60

\* Live mode with Kp 5.0 and one M flare, the inputs of the demo status:
\* the status returned is the assessed one
C22_WitnessLive ==
    /\ ~DEMO_MODE
    /\ pc = "done"
    /\ returned.kp_current = 50
    /\ Len(returned.recent_flares) = 1
    /\ returned.gps_degradation_risk = "moderate"
    /\ overhead.pc = "done"
    /\ Len(overhead.returned) = 2

-----------------------------------------------------------------------------
(* Properties of every returned status, checked under Spec *)

\* C23: every status returned by get_current_status, demo or live, whatever
\* feeds failed, rates GPS, HF radio and satellites with one of none, minor,
\* moderate, high, and aurora visibility with one of unlikely,
\* visible_polar_regions, visible_high_latitudes, visible_mid_latitudes.
C23_RatingsWithinLevels ==
    pc = "done" =>
        /\ returned.gps_degradation_risk \in RiskLevels
        /\ returned.hf_radio_risk \in RiskLevels
        /\ returned.satellite_risk \in RiskLevels
        /\ returned.aurora_visibility \in AuroraLevels

\* Live mode, all three feeds failed: the status of the defaults is rated
C23_Witness ==
    /\ pc = "done"
    /\ ~DEMO_MODE
    /\ log = <<"Kp fetch failed", "Failed to fetch flares", "Failed to fetch CMEs">>
    /\ returned.gps_degradation_risk = "none"
    /\ returned.hf_radio_risk = "none"
    /\ returned.satellite_risk = "none"
    /\ returned.aurora_visibility = "unlikely"

\* A reading beyond the Kp scale served, with a flare less than an hour old
C23_WitnessExtreme ==
    /\ pc = "done"
    /\ ~DEMO_MODE
    /\ returned.kp_current > KP_MAX
    /\ returned.hf_radio_risk \in {"moderate", "high"}
    /\ returned.aurora_visibility = "visible_mid_latitudes"

\* The ratings and the summary of a status are those the assessor gives for
\* the status's own kp_current, recent_flares and active_cmes at its timestamp
SelfConsistent(status) ==
    LET assessed == BuildStatus(status.kp_current, status.recent_flares,
                                status.active_cmes, status.timestamp)
    IN  /\ status.gps_degradation_risk = assessed.gps_degradation_risk
        /\ status.hf_radio_risk = assessed.hf_radio_risk
        /\ status.satellite_risk = assessed.satellite_risk
        /\ status.aurora_visibility = assessed.aurora_visibility
        /\ status.summary = assessed.summary

\* C24: every status returned by get_current_status, the demo status
\* included, carries the ratings and the summary the assessor yields for its
\* own kp_current, recent_flares and active_cmes.
C24_SelfConsistent == pc = "done" => SelfConsistent(returned)

\* The statuses returned with DEMO_MODE off are self-consistent
C24_LiveSelfConsistent == (pc = "done" /\ ~DEMO_MODE) => SelfConsistent(returned)

-----------------------------------------------------------------------------
(* Properties of the scheduler, checked under SpecScheduler *)

Running == {i \in DOMAIN instances : instances[i].running}

\* A step that is a call of fn
IsCallOf(fn) == lastChange' # lastChange /\ lastChange'.fn = fn

AtMostOneScheduler ==
    /\ Cardinality(Running) <= 1
    /\ Running = IF scheduler = NoScheduler THEN {} ELSE {scheduler}
    /\ (scheduler # NoScheduler) <=> (lastChange.last = "start_scheduler")
    /\ \A i \in DOMAIN instances : instances[i].jobs = JOBS

StartStopSteps ==
    /\ (IsCallOf("start_scheduler") /\ scheduler # NoScheduler) =>
          UNCHANGED <<scheduler, instances, task>>
    /\ (IsCallOf("stop_scheduler") /\ scheduler = NoScheduler) =>
          UNCHANGED <<scheduler, instances, task>>
    /\ (IsCallOf("start_scheduler") /\ scheduler = NoScheduler) =>
          /\ scheduler' # NoScheduler
          /\ instances'[scheduler'] = [running |-> TRUE, jobs |-> JOBS]
    /\ (IsCallOf("stop_scheduler") /\ scheduler # NoScheduler) =>
          scheduler' = NoScheduler

\* C25: whatever the sequence of start_scheduler and stop_scheduler calls,
\* at most one scheduler is running and it is the global one; a scheduler is
\* running exactly when the last call that changed the state was
\* start_scheduler; start_scheduler while one is running creates no
\* scheduler and registers no job, stop_scheduler while none is running
\* changes nothing; every scheduler created, also one started after a stop,
\* carries exactly the jobs space_weather_update and tle_update.
C25_AtMostOneScheduler == [](AtMostOneScheduler) /\ [][StartStopSteps]_vars

\* start, start again, stop, stop again, start: the second scheduler is the
\* only one running and carries the two jobs
C25_Witness ==
    /\ Len(instances) = 2
    /\ scheduler = 2
    /\ ~instances[1].running
    /\ instances[2] = [running |-> TRUE, jobs |-> JOBS]
    /\ lastChange.fn = "start_scheduler"
    /\ ~lastChange.changed
    /\ lastChange.event = "Scheduler already running"

\* stop_scheduler called with no scheduler running, after a stop
C25_WitnessStopTwice ==
    /\ Len(instances) = 1
    /\ scheduler = NoScheduler
    /\ lastChange.fn = "stop_scheduler"
    /\ ~lastChange.changed
    /\ lastChange.last = "stop_scheduler"

\* C26: update_space_weather never ends with an exception: whether
\* get_current_status returned a status or raised, the task has completed
\* normally and logged the update or the failure, and while the scheduler
\* runs the job stays registered for its next run.
C26_TaskNeverRaises ==
    /\ task.ended \in {"none", "normally", "cancelled"}
    /\ task.outcome \in StatusOutcomes =>
          /\ task.pc = "idle"
          /\ task.ended = "normally"
          /\ task.log[Len(task.log)] =
                IF task.outcome = "status" THEN "Space weather updated"
                ELSE "Failed to update space weather"
          /\ (scheduler # NoScheduler) => JobDue("space_weather_update")

\* The first update failed and the second ran and succeeded
C26_Witness ==
    /\ task.runs = 2
    /\ task.outcome = "status"
    /\ task.ended = "normally"
    /\ task.log = <<"Updating space weather data",
                    "Failed to update space weather",
                    "Updating space weather data",
                    "Space weather updated">>

\* get_current_status raised: the task logged the failure and completed
C26_WitnessRaised ==
    /\ task.outcome = "raised"
    /\ task.ended = "normally"
    /\ task.pc = "idle"
    /\ scheduler # NoScheduler

=============================================================================
